---- MODULE Spec2Model ----
(***************************************************************************)
(* A model of the type database of the Inko compiler (types/src/lib.rs):   *)
(* inference placeholders, the ownership algebra of TypeRef, shapes and    *)
(* the interning of type arguments.                                        *)
(*                                                                         *)
(* IDs are the 0-based indexes of the Rust tables; a table is a sequence   *)
(* and the record with ID i is table[i + 1].                               *)
(***************************************************************************)
EXTENDS Integers, Sequences, FiniteSets

VARIABLES
    classes,            \* Database::classes
    traits,             \* Database::traits
    type_parameters,    \* Database::type_parameters
    type_placeholders,  \* Database::type_placeholders (the value cells)
    type_arguments,     \* Database::type_arguments
    modules,            \* Database::modules
    module_mapping,     \* Database::module_mapping
    methods,            \* Database::methods
    fields,             \* Database::fields
    constants,          \* Database::constants
    closures,           \* Database::closures
    variables,          \* Database::variables
    constructors,       \* Database::constructors
    cache,              \* InternedTypeArguments::cache
    mapping,            \* InternedTypeArguments::mapping
    held,               \* the TypeRef the caller holds
    ret                 \* the last call made and what it returned

vars == <<classes, traits, type_parameters, type_placeholders,
          type_arguments, modules, module_mapping, methods, fields,
          constants, closures, variables, constructors, cache, mapping,
          held, ret>>

\* The declarations, which inference and specialization leave alone.
declarations == <<classes, traits, type_parameters, modules, module_mapping,
                  methods, fields, constants, closures, variables,
                  constructors>>

\* The InternedTypeArguments of the specializer.
interned == <<cache, mapping>>

-----------------------------------------------------------------------------
(* Bounds of the model. *)

\* The largest number of placeholders allocated.
MaxPlaceholders == 3

\* The largest number of argument sets in Database::type_arguments.
MaxTypeArguments == 3
MaxInstances == 2

-----------------------------------------------------------------------------
(* Program constants. *)

STRING_ID == 0
BYTE_ARRAY_ID == 1
INT_ID == 2
FLOAT_ID == 3
BOOL_ID == 4
NIL_ID == 5
ARRAY_ID == 14
CHECKED_INT_RESULT_ID == 15
FIRST_USER_CLASS_ID == CHECKED_INT_RESULT_ID + 1

\* enum Ownership
Ownership ==
    {"Any", "Owned", "Uni", "Ref", "Mut", "UniRef", "UniMut", "Pointer"}

-----------------------------------------------------------------------------
(* Values: TypeId, TypePlaceholderId, TypeRef, Option. *)

\* enum TypeId, as a record of one layout: k is the constructor, id the ID
\* it wraps and targs the type_arguments index of an instance. A foreign
\* type keeps its size in id and its sign (1 = signed) in targs.
TypeId(k, id, targs) == [k |-> k, id |-> id, targs |-> targs]

NoTypeId == TypeId("None", 0, 0)

\* struct TypePlaceholderId
TypePlaceholderId(id, ownership) == [id |-> id, ownership |-> ownership]

NoPlaceholderId == TypePlaceholderId(0, "Any")

\* enum TypeRef: tag is the constructor, tid the TypeId it wraps and pid the
\* TypePlaceholderId of a Placeholder.
TypeRef(tag, tid) == [tag |-> tag, tid |-> tid, pid |-> NoPlaceholderId]

Owned(tid) == TypeRef("Owned", tid)
Uni(tid) == TypeRef("Uni", tid)
Ref(tid) == TypeRef("Ref", tid)
Mut(tid) == TypeRef("Mut", tid)
UniRef(tid) == TypeRef("UniRef", tid)
UniMut(tid) == TypeRef("UniMut", tid)
Any(tid) == TypeRef("Any", tid)
Pointer(tid) == TypeRef("Pointer", tid)
Never == TypeRef("Never", NoTypeId)
Error == TypeRef("Error", NoTypeId)
Unknown == TypeRef("Unknown", NoTypeId)
Placeholder(pid) == [tag |-> "Placeholder", tid |-> NoTypeId, pid |-> pid]

\* What a call returns when it does not return: the recursion of value()
\* over a cycle of placeholders never ends.
Diverges == TypeRef("Diverges", NoTypeId)

\* Option<T>
None == <<>>
Some(v) == <<v>>

\* ClassInstance::new
ClassInstance_new(instance_of) == TypeId("ClassInstance", instance_of, 0)

\* A ClassInstance with its type_arguments index.
ClassInstance(instance_of, targs) == TypeId("ClassInstance", instance_of, targs)

\* TraitInstance::new
TraitInstance_new(instance_of) == TypeId("TraitInstance", instance_of, 0)

\* A TraitInstance with its type_arguments index.
TraitInstance(instance_of, targs) == TypeId("TraitInstance", instance_of, targs)

TypeParameter(id) == TypeId("TypeParameter", id, 0)
RigidTypeParameter(id) == TypeId("RigidTypeParameter", id, 0)
AtomicTypeParameter(id) == TypeId("AtomicTypeParameter", id, 0)
Module(id) == TypeId("Module", id, 0)
ForeignInt(size, signed) == TypeId("ForeignInt", size, signed)
ForeignFloat(size) == TypeId("ForeignFloat", size, 0)

\* TypeRef::int and friends
TypeRef_int == Owned(ClassInstance_new(INT_ID))
TypeRef_float == Owned(ClassInstance_new(FLOAT_ID))
TypeRef_string == Owned(ClassInstance_new(STRING_ID))
TypeRef_boolean == Owned(ClassInstance_new(BOOL_ID))
TypeRef_nil == Owned(ClassInstance_new(NIL_ID))

-----------------------------------------------------------------------------
(* Classes and type parameters. *)

\* enum Visibility
Visibility == {"Public", "Private", "TypePrivate"}

DEFAULT_BUILTIN_MODULE_ID == 0

\* Class::new: an extern class is stored on the stack, any other on the heap.
\* methods and implemented_traits are HashMaps, the sets of their (key,
\* value) pairs.
Class_new(name, kind, visibility, module) ==
    [name |-> name,
     kind |-> kind,
     visibility |-> visibility,
     storage |-> IF kind = "Extern" THEN "Stack" ELSE "Heap",
     type_parameters |-> <<>>,
     methods |-> {},
     implemented_traits |-> {},
     module |-> module]

Class_atomic(name) ==
    Class_new(name, "Atomic", "Public", DEFAULT_BUILTIN_MODULE_ID)
Class_regular(name) ==
    Class_new(name, "Regular", "Public", DEFAULT_BUILTIN_MODULE_ID)
Class_tuple(name) ==
    Class_new(name, "Tuple", "Public", DEFAULT_BUILTIN_MODULE_ID)
Class_value_type(name) ==
    [Class_new(name, "Regular", "Public", DEFAULT_BUILTIN_MODULE_ID)
        EXCEPT !.storage = "Stack"]

\* Database::new: the builtin classes, IDs 0 to 15.
Database_new_classes ==
    <<Class_atomic("String"), Class_regular("ByteArray"),
      Class_value_type("Int"), Class_value_type("Float"),
      Class_value_type("Bool"), Class_value_type("Nil"),
      Class_tuple("Tuple1"), Class_tuple("Tuple2"), Class_tuple("Tuple3"),
      Class_tuple("Tuple4"), Class_tuple("Tuple5"), Class_tuple("Tuple6"),
      Class_tuple("Tuple7"), Class_tuple("Tuple8"), Class_regular("Array"),
      Class_new("CheckedIntResult", "Extern", "Private",
                DEFAULT_BUILTIN_MODULE_ID)>>

\* ModuleName: the segments the separator "." splits the name into, each
\* the sequence of the pieces of text that make it up, so that "test_bla"
\* is <<"test_", "bla">> and "std.foo" is <<<<"std">>, <<"foo">>>>.
ModuleName_new(segments) == segments

\* ModuleName::head: the first segment.
ModuleName_head(name) == name[1]

\* ModuleName::is_root: the name has no separator.
ModuleName_is_root(name) == Len(name) = 1

\* ModuleName::as_str: the text of the whole name.
RECURSIVE ModuleName_as_str(_)
ModuleName_as_str(name) ==
    IF Len(name) = 1
    THEN name[1]
    ELSE name[1] \o <<".">> \o ModuleName_as_str(Tail(name))

\* str::strip_prefix
strip_prefix(text, prefix) ==
    IF text # <<>> /\ text[1] = prefix THEN Some(Tail(text)) ELSE None

\* Module::alloc: the record of the module, whose class is allocated with it.
Module_new(name, class) ==
    [name |-> name, class |-> class, constants |-> <<>>, symbols |-> {},
     extern_methods |-> {}]

\* Trait::new
Trait_new(visibility, module) ==
    [visibility |-> visibility,
     module |-> module,
     type_parameters |-> <<>>,
     required_traits |-> <<>>,
     default_methods |-> {},
     required_methods |-> {},
     inherited_type_arguments |-> <<>>]

\* TypeParameter::new
TypeParameter_new ==
    [mutable |-> FALSE, stack |-> FALSE, requirements |-> <<>>]

ClassId_get(id) == classes[id + 1]
TraitId_get(id) == traits[id + 1]
TypeParameterId_get(id) == type_parameters[id + 1]

\* ClassId::kind and the ClassKind predicates
ClassKind_is_extern(kind) == kind = "Extern"
ClassKind_is_atomic(kind) == kind \in {"Async", "Atomic"}
ClassKind_is_async(kind) == kind = "Async"

ClassId_kind(id) == ClassId_get(id).kind
ClassId_is_generic(id) == ClassId_get(id).type_parameters # <<>>
ClassId_type_parameters(id) == ClassId_get(id).type_parameters
ClassId_is_stack_allocated(id) == ClassId_get(id).storage = "Stack"

\* ClassId::is_value_type
ClassId_is_value_type(id) ==
    IF ClassId_get(id).kind \in {"Async", "Atomic"}
    THEN TRUE
    ELSE ClassId_get(id).storage = "Stack"

\* TraitId::is_generic
TraitId_is_generic(id) == TraitId_get(id).type_parameters # <<>>

TypeParameterId_is_stack_allocated(id) == TypeParameterId_get(id).stack
\* is_mutable reading the flag of stack allocation.
TypeParameterId_is_mutable_reads_stack(id) == TypeParameterId_get(id).stack

TypeParameterId_is_mutable(id) == TypeParameterId_get(id).mutable

IsParameter(tid) == tid.k \in {"TypeParameter", "RigidTypeParameter"}

-----------------------------------------------------------------------------
(* Placeholders and the conversions of TypeRef. *)

RECURSIVE value_rec(_, _)
RECURSIVE is_value_type(_)
RECURSIVE as_owned(_)
RECURSIVE as_uni(_)
RECURSIVE as_ref(_)
RECURSIVE as_mut(_)
RECURSIVE force_as_mut(_)
RECURSIVE as_pointer(_)
RECURSIVE as_uni_ref(_)
RECURSIVE as_uni_mut(_)
RECURSIVE force_as_uni_mut(_)

\* TypePlaceholderId::get
TypePlaceholderId_get(self) == type_placeholders[self.id + 1]

\* TypePlaceholderId::with_ownership (as_owned, as_ref, ... of the ID)
with_ownership(self, ownership) == TypePlaceholderId(self.id, ownership)

\* value_convert with the guarded conversion as_mut in place of force_as_mut
\* for a reference tagged Mut.
value_convert_as_mut(ownership, typ) ==
    CASE ownership = "Any" -> typ
      [] ownership = "Owned" -> as_owned(typ)
      [] ownership = "Uni" -> as_uni(typ)
      [] ownership = "Ref" -> as_ref(typ)
      [] ownership = "Mut" -> as_mut(typ)
      [] ownership = "UniRef" -> as_uni_ref(typ)
      [] ownership = "UniMut" -> force_as_uni_mut(typ)
      [] ownership = "Pointer" -> as_pointer(typ)

\* The conversion value() applies for the ownership of the reference read.
value_convert(ownership, typ) ==
    CASE ownership = "Any" -> typ
      [] ownership = "Owned" -> as_owned(typ)
      [] ownership = "Uni" -> as_uni(typ)
      [] ownership = "Ref" -> as_ref(typ)
      [] ownership = "Mut" -> force_as_mut(typ)
      [] ownership = "UniRef" -> as_uni_ref(typ)
      [] ownership = "UniMut" -> force_as_uni_mut(typ)
      [] ownership = "Pointer" -> as_pointer(typ)

\* value_rec without the arm that follows a cell holding a placeholder: the
\* placeholder in the cell is returned as the value.
value_rec_one_cell(self, depth) ==
    LET typ == TypePlaceholderId_get(self).value
    IN  IF typ.tag = "Unknown"
        THEN None
        ELSE Some(value_convert(self.ownership, typ))

\* TypePlaceholderId::value, with the depth of the recursion left: a chain
\* longer than the number of placeholders is a cycle, over which the
\* recursion never returns.
value_rec(self, depth) ==
    IF depth = 0
    THEN Some(Diverges)
    ELSE LET typ == TypePlaceholderId_get(self).value
         IN  CASE typ.tag = "Placeholder" -> value_rec(typ.pid, depth - 1)
               [] typ.tag = "Unknown" -> None
               [] OTHER -> Some(value_convert(self.ownership, typ))

\* TypePlaceholderId::value
value(self) == value_rec(self, Len(type_placeholders) + 1)

\* TypeRef::is_value_type
is_value_type(self) ==
    CASE self.tag \in {"Owned", "Ref", "Mut", "UniRef", "UniMut", "Uni"}
         /\ self.tid.k = "ClassInstance" -> ClassId_is_value_type(self.tid.id)
      [] self.tag \in {"Owned", "Ref", "Mut"} /\ self.tid.k = "Module" -> TRUE
      [] self.tag = "Owned" /\ self.tid.k \in {"ForeignInt", "ForeignFloat"}
         -> TRUE
      [] self.tag = "Pointer" -> TRUE
      [] self.tag = "Placeholder" ->
         LET v == value(self.pid)
         IN  IF v = None THEN FALSE ELSE is_value_type(v[1])
      [] OTHER -> FALSE

\* TypeRef::is_extern_instance
is_extern_instance(self) ==
    IF self.tag \in {"Owned", "Uni"} /\ self.tid.k = "ClassInstance"
    THEN ClassKind_is_extern(ClassId_kind(self.tid.id))
    ELSE FALSE

\* as_owned without Ref among the references it turns into Owned.
as_owned_keeps_ref(self) ==
    CASE self.tag \in {"Uni", "Any", "Mut", "UniRef", "UniMut"}
         -> Owned(self.tid)
      [] self.tag = "Placeholder" ->
         LET v == value(self.pid)
         IN  IF v # None
             THEN as_owned(v[1])
             ELSE Placeholder(with_ownership(self.pid, "Owned"))
      [] OTHER -> self

\* TypeRef::as_owned
as_owned(self) ==
    CASE self.tag \in {"Uni", "Any", "Ref", "Mut", "UniRef", "UniMut"}
         -> Owned(self.tid)
      [] self.tag = "Placeholder" ->
         LET v == value(self.pid)
         IN  IF v # None
             THEN as_owned(v[1])
             ELSE Placeholder(with_ownership(self.pid, "Owned"))
      [] OTHER -> self

\* TypeRef::as_uni
as_uni(self) ==
    IF is_value_type(self)
    THEN self
    ELSE CASE self.tag \in {"Owned", "Any", "Uni", "Mut", "Ref"}
              -> Uni(self.tid)
           [] self.tag = "Placeholder" ->
              LET v == value(self.pid)
              IN  IF v # None
                  THEN as_uni(v[1])
                  ELSE Placeholder(with_ownership(self.pid, "Uni"))
           [] OTHER -> self

\* as_ref with the arm of stack allocated classes before the arm of extern
\* classes: an extern class is stack allocated, so its arm is never taken.
as_ref_stack_first(self) ==
    CASE self.tag = "Owned" /\ self.tid.k = "ClassInstance"
         /\ ClassId_is_stack_allocated(self.tid.id)
         -> Owned(self.tid)
      [] self.tag = "Owned" /\ self.tid.k = "ClassInstance"
         /\ ~ClassId_is_stack_allocated(self.tid.id)
         /\ ClassKind_is_extern(ClassId_kind(self.tid.id))
         -> Pointer(self.tid)
      [] self.tag \in {"Owned", "Any", "Mut", "Ref"}
         /\ ~(self.tag = "Owned" /\ self.tid.k = "ClassInstance"
              /\ (ClassKind_is_extern(ClassId_kind(self.tid.id))
                  \/ ClassId_is_stack_allocated(self.tid.id)))
         -> IF IsParameter(self.tid)
               /\ TypeParameterId_is_stack_allocated(self.tid.id)
            THEN Owned(self.tid)
            ELSE Ref(self.tid)
      [] self.tag \in {"Uni", "UniMut"} -> UniRef(self.tid)
      [] self.tag = "Placeholder" ->
         LET v == value(self.pid)
         IN  IF v # None
             THEN as_ref(v[1])
             ELSE Placeholder(with_ownership(self.pid, "Ref"))
      [] OTHER -> self

\* TypeRef::as_ref
as_ref(self) ==
    CASE self.tag = "Owned" /\ self.tid.k = "ClassInstance"
         /\ ClassKind_is_extern(ClassId_kind(self.tid.id))
         -> Pointer(self.tid)
      [] self.tag = "Owned" /\ self.tid.k = "ClassInstance"
         /\ ~ClassKind_is_extern(ClassId_kind(self.tid.id))
         /\ ClassId_is_stack_allocated(self.tid.id)
         -> Owned(self.tid)
      [] self.tag \in {"Owned", "Any", "Mut", "Ref"}
         /\ ~(self.tag = "Owned" /\ self.tid.k = "ClassInstance"
              /\ (ClassKind_is_extern(ClassId_kind(self.tid.id))
                  \/ ClassId_is_stack_allocated(self.tid.id)))
         -> IF IsParameter(self.tid)
               /\ TypeParameterId_is_stack_allocated(self.tid.id)
            THEN Owned(self.tid)
            ELSE Ref(self.tid)
      [] self.tag \in {"Uni", "UniMut"} -> UniRef(self.tid)
      [] self.tag = "Placeholder" ->
         LET v == value(self.pid)
         IN  IF v # None
             THEN as_ref(v[1])
             ELSE Placeholder(with_ownership(self.pid, "Ref"))
      [] OTHER -> self

\* TypeRef::as_mut
as_mut(self) ==
    CASE self.tag = "Any" /\ IsParameter(self.tid) ->
         IF TypeParameterId_is_stack_allocated(self.tid.id)
         THEN Owned(self.tid)
         ELSE IF TypeParameterId_is_mutable(self.tid.id)
              THEN Mut(self.tid)
              ELSE Ref(self.tid)
      [] self.tag \in {"Owned", "Mut"} /\ IsParameter(self.tid) ->
         IF TypeParameterId_is_stack_allocated(self.tid.id)
         THEN Owned(self.tid)
         ELSE Mut(self.tid)
      [] self.tag = "Uni" /\ IsParameter(self.tid)
         /\ TypeParameterId_is_stack_allocated(self.tid.id)
         -> Owned(self.tid)
      [] self.tag = "Owned" /\ self.tid.k = "ClassInstance"
         /\ ClassKind_is_extern(ClassId_kind(self.tid.id))
         -> Pointer(self.tid)
      [] self.tag = "Owned" /\ self.tid.k = "ClassInstance"
         /\ ~ClassKind_is_extern(ClassId_kind(self.tid.id))
         /\ ClassId_is_value_type(self.tid.id)
         -> Owned(self.tid)
      [] self.tag = "Owned" /\ ~IsParameter(self.tid)
         /\ ~(self.tid.k = "ClassInstance"
              /\ (ClassKind_is_extern(ClassId_kind(self.tid.id))
                  \/ ClassId_is_value_type(self.tid.id)))
         -> Mut(self.tid)
      [] self.tag = "Uni"
         /\ ~(IsParameter(self.tid)
              /\ TypeParameterId_is_stack_allocated(self.tid.id))
         -> UniMut(self.tid)
      [] self.tag = "Placeholder" ->
         LET v == value(self.pid)
         IN  IF v # None
             THEN as_mut(v[1])
             ELSE Placeholder(with_ownership(self.pid, "Mut"))
      [] OTHER -> self

\* TypeRef::force_as_mut
force_as_mut(self) ==
    CASE self.tag = "Owned" /\ self.tid.k = "ClassInstance"
         /\ ClassKind_is_extern(ClassId_kind(self.tid.id))
         -> Pointer(self.tid)
      [] self.tag = "Owned" /\ self.tid.k = "ClassInstance"
         /\ ~ClassKind_is_extern(ClassId_kind(self.tid.id))
         /\ ClassId_is_value_type(self.tid.id)
         -> Owned(self.tid)
      [] self.tag \in {"Owned", "Any", "Mut"}
         /\ ~(self.tag = "Owned" /\ self.tid.k = "ClassInstance"
              /\ (ClassKind_is_extern(ClassId_kind(self.tid.id))
                  \/ ClassId_is_value_type(self.tid.id)))
         -> IF IsParameter(self.tid)
               /\ TypeParameterId_is_stack_allocated(self.tid.id)
            THEN Owned(self.tid)
            ELSE Mut(self.tid)
      [] self.tag = "Uni" ->
         IF IsParameter(self.tid)
            /\ TypeParameterId_is_stack_allocated(self.tid.id)
         THEN Owned(self.tid)
         ELSE UniMut(self.tid)
      [] self.tag = "Placeholder" ->
         LET v == value(self.pid)
         IN  IF v # None
             THEN force_as_mut(v[1])
             ELSE Placeholder(with_ownership(self.pid, "Mut"))
      [] OTHER -> self

\* as_pointer tagging an unresolved placeholder Ref, as as_ref does.
as_pointer_tags_ref(self) ==
    CASE self.tag \in {"Owned", "Uni", "Any", "Mut", "Ref"}
         -> Pointer(self.tid)
      [] self.tag = "Placeholder" ->
         LET v == value(self.pid)
         IN  IF v # None
             THEN as_pointer(v[1])
             ELSE Placeholder(with_ownership(self.pid, "Ref"))
      [] OTHER -> self

\* TypeRef::as_pointer
as_pointer(self) ==
    CASE self.tag \in {"Owned", "Uni", "Any", "Mut", "Ref"}
         -> Pointer(self.tid)
      [] self.tag = "Placeholder" ->
         LET v == value(self.pid)
         IN  IF v # None
             THEN as_pointer(v[1])
             ELSE Placeholder(with_ownership(self.pid, "Pointer"))
      [] OTHER -> self

\* TypeRef::as_uni_ref
as_uni_ref(self) ==
    CASE self.tag \in {"Owned", "Any", "Uni", "Mut", "Ref", "UniRef", "UniMut"}
         -> UniRef(self.tid)
      [] self.tag = "Placeholder" ->
         LET v == value(self.pid)
         IN  IF v # None
             THEN as_uni_ref(v[1])
             ELSE Placeholder(with_ownership(self.pid, "UniRef"))
      [] OTHER -> self

\* TypeRef::as_uni_mut
as_uni_mut(self) ==
    CASE self.tag \in {"Owned", "Uni", "Mut", "UniMut"} -> UniMut(self.tid)
      [] self.tag \in {"Ref", "Any", "UniRef"} -> UniRef(self.tid)
      [] self.tag = "Placeholder" ->
         LET v == value(self.pid)
         IN  IF v # None
             THEN as_uni_mut(v[1])
             ELSE Placeholder(with_ownership(self.pid, "UniMut"))
      [] OTHER -> self

\* TypeRef::force_as_uni_mut
force_as_uni_mut(self) ==
    CASE self.tag \in {"Owned", "Any", "Uni", "Mut", "Ref"}
         -> UniMut(self.tid)
      [] self.tag = "Placeholder" ->
         LET v == value(self.pid)
         IN  IF v # None
             THEN force_as_uni_mut(v[1])
             ELSE Placeholder(with_ownership(self.pid, "UniMut"))
      [] OTHER -> self

-----------------------------------------------------------------------------
(* Type arguments, interning and shapes. *)

\* struct TypeArguments: the entries of the HashMap, in the order in which
\* the map iterates over them. The order is a property of the map, not of
\* its contents: two maps with the same entries may iterate differently.
TypeArguments_keys(args) == {args[i].key : i \in 1 .. Len(args)}

\* TypeArguments::get
TypeArguments_get(args, parameter) ==
    IF parameter \in TypeArguments_keys(args)
    THEN Some((CHOOSE e \in {args[i] : i \in 1 .. Len(args)} :
                  e.key = parameter).value)
    ELSE None

\* ClassInstance::type_arguments and TraitInstance::type_arguments
Instance_type_arguments(self) ==
    IF self.targs < Len(type_arguments)
    THEN Some(type_arguments[self.targs + 1])
    ELSE None

\* TypeRef::type_id, an Err being None
RECURSIVE type_id(_)
type_id(self) ==
    CASE self.tag \in {"Pointer", "Owned", "Uni", "Ref", "Mut", "UniRef",
                       "UniMut", "Any"} -> Some(self.tid)
      [] self.tag = "Placeholder" ->
         LET v == value(self.pid)
         IN  IF v = None THEN None ELSE type_id(v[1])
      [] OTHER -> None

\* The type IDs of the values of args, in the order of iteration.
RECURSIVE argument_type_ids(_, _)
argument_type_ids(args, n) ==
    IF n = 0
    THEN <<>>
    ELSE argument_type_ids(args, n - 1) \o type_id(args[n].value)

\* The loop of InternedTypeArguments::intern: the key built from the stack
\* of type IDs still to visit.
RECURSIVE intern_key(_, _)
intern_key(stack, key) ==
    IF stack = <<>>
    THEN key
    ELSE LET tid == stack[Len(stack)]
             rest == SubSeq(stack, 1, Len(stack) - 1)
             generic ==
                 \/ tid.k = "ClassInstance" /\ ClassId_is_generic(tid.id)
                 \/ tid.k = "TraitInstance" /\ TraitId_is_generic(tid.id)
             val == IF generic THEN TypeId(tid.k, tid.id, 0) ELSE tid
             args == IF generic THEN Instance_type_arguments(tid) ELSE None
             pushed == IF args = None
                       THEN <<>>
                       ELSE argument_type_ids(args[1], Len(args[1]))
         IN  intern_key(rest \o pushed, Append(key, val))

\* cache and mapping are the sets of the (key, value) pairs of the HashMaps.
HashMap_contains(map, key) == \E e \in map : e[1] = key
HashMap_get(map, key) == (CHOOSE e \in map : e[1] = key)[2]

\* intern without the lookup of the key in mapping: an instance that is not
\* in the cache keeps its own type arguments.
intern_id_unmapped(instance) ==
    IF HashMap_contains(cache, instance)
    THEN HashMap_get(cache, instance)
    ELSE instance.targs

\* InternedTypeArguments::intern: the ID it returns
intern_id(instance) ==
    IF HashMap_contains(cache, instance)
    THEN HashMap_get(cache, instance)
    ELSE LET key == intern_key(<<instance>>, <<>>)
         IN  IF HashMap_contains(mapping, key)
             THEN HashMap_get(mapping, key)
             ELSE instance.targs

\* InternedTypeArguments::intern: the mapping it leaves
intern_mapping(instance) ==
    IF HashMap_contains(cache, instance)
    THEN mapping
    ELSE mapping \cup
         {<<intern_key(<<instance>>, <<>>), intern_id(instance)>>}

\* InternedTypeArguments::intern: the cache it leaves
intern_cache(instance) == cache \cup {<<instance, intern_id(instance)>>}

\* enum Shape: s is the constructor; Int keeps its size in a and its sign
\* (1 = signed) in b, Float its size in a, Stack its class in a and the
\* type_arguments of the instance in b.
Shape(s, a, b) == [s |-> s, a |-> a, b |-> b]

Shape_Owned == Shape("Owned", 0, 0)
Shape_Mut == Shape("Mut", 0, 0)
Shape_Ref == Shape("Ref", 0, 0)
Shape_Boolean == Shape("Boolean", 0, 0)
Shape_String == Shape("String", 0, 0)
Shape_Nil == Shape("Nil", 0, 0)
Shape_Atomic == Shape("Atomic", 0, 0)
Shape_Pointer == Shape("Pointer", 0, 0)
Shape_Int(size, sign) == Shape("Int", size, sign)
Shape_Float(size) == Shape("Float", size, 0)
Shape_Stack(instance) == Shape("Stack", instance.id, instance.targs)

\* Shape::int and Shape::float
Shape_int == Shape_Int(64, 1)
Shape_float == Shape_Float(64)

\* The call does not return: it panics.
Panic == Shape("Panic", 0, 0)

\* ClassInstance::shape with the arm of atomic classes first: String is an
\* atomic class.
ClassInstance_shape_atomic_first(self, default) ==
    IF ClassKind_is_atomic(ClassId_kind(self.id)) THEN Shape_Atomic
    ELSE IF self.id = INT_ID THEN Shape_int
    ELSE IF self.id = FLOAT_ID THEN Shape_float
    ELSE IF self.id = BOOL_ID THEN Shape_Boolean
    ELSE IF self.id = NIL_ID THEN Shape_Nil
    ELSE IF self.id = STRING_ID THEN Shape_String
    ELSE IF ClassId_is_stack_allocated(self.id)
         THEN Shape_Stack(ClassInstance(self.id,
                                        IF ClassId_is_generic(self.id)
                                        THEN intern_id(self)
                                        ELSE 0))
         ELSE default

\* ClassInstance::shape: the shape it returns
ClassInstance_shape(self, default) ==
    IF self.id = INT_ID THEN Shape_int
    ELSE IF self.id = FLOAT_ID THEN Shape_float
    ELSE IF self.id = BOOL_ID THEN Shape_Boolean
    ELSE IF self.id = NIL_ID THEN Shape_Nil
    ELSE IF self.id = STRING_ID THEN Shape_String
    ELSE IF ClassKind_is_atomic(ClassId_kind(self.id)) THEN Shape_Atomic
    ELSE IF ClassId_is_stack_allocated(self.id)
         THEN Shape_Stack(ClassInstance(self.id,
                                        IF ClassId_is_generic(self.id)
                                        THEN intern_id(self)
                                        ELSE 0))
         ELSE default

\* ClassInstance::shape: the instances it interns
ClassInstance_shape_interns(self) ==
    IF /\ self.id \notin {INT_ID, FLOAT_ID, BOOL_ID, NIL_ID, STRING_ID}
       /\ ~ClassKind_is_atomic(ClassId_kind(self.id))
       /\ ClassId_is_stack_allocated(self.id)
       /\ ClassId_is_generic(self.id)
    THEN <<self>>
    ELSE <<>>

\* parameter_shape with the default for an Owned entry only: a parameter
\* without an entry is a panic.
parameter_shape_or_panic(shapes, id, default) ==
    IF id \notin DOMAIN shapes
    THEN Panic
    ELSE IF shapes[id] = Shape_Owned THEN default ELSE shapes[id]

\* The shape of a type parameter when shapes has no entry for it or the
\* entry is Owned, and the entry otherwise.
parameter_shape(shapes, id, default) ==
    IF id \notin DOMAIN shapes \/ shapes[id] = Shape_Owned
    THEN default
    ELSE shapes[id]

\* TypeRef::shape: the shape it returns
RECURSIVE shape(_, _)
shape(self, shapes) ==
    IF self.tag \in {"Owned", "Uni"} /\ self.tid.k = "ClassInstance"
    THEN ClassInstance_shape(self.tid, Shape_Owned)
    ELSE IF self.tag \in {"Mut", "UniMut"} /\ self.tid.k = "ClassInstance"
    THEN ClassInstance_shape(self.tid, Shape_Mut)
    ELSE IF self.tag \in {"Ref", "UniRef"} /\ self.tid.k = "ClassInstance"
    THEN ClassInstance_shape(self.tid, Shape_Ref)
    ELSE IF self.tag \in {"Any", "Owned", "Uni"} /\ IsParameter(self.tid)
    THEN IF self.tid.id \in DOMAIN shapes
         THEN shapes[self.tid.id]
         ELSE Panic
    ELSE IF /\ self.tag \in {"Owned", "Ref", "Mut"}
            /\ self.tid.k = "AtomicTypeParameter"
    THEN Shape_Atomic
    ELSE IF self.tag \in {"Mut", "UniMut"} /\ IsParameter(self.tid)
    THEN parameter_shape(shapes, self.tid.id, Shape_Mut)
    ELSE IF self.tag \in {"Ref", "UniRef"} /\ IsParameter(self.tid)
    THEN parameter_shape(shapes, self.tid.id, Shape_Ref)
    ELSE IF self.tag \in {"Mut", "UniMut"} THEN Shape_Mut
    ELSE IF self.tag \in {"Ref", "UniRef"} THEN Shape_Ref
    ELSE IF self.tag = "Placeholder"
    THEN LET v == value(self.pid)
         IN  IF v = None THEN Shape_Owned ELSE shape(v[1], shapes)
    ELSE IF self.tag \in {"Owned", "Uni"} /\ self.tid.k = "ForeignInt"
    THEN Shape_Int(self.tid.id, self.tid.targs)
    ELSE IF self.tag \in {"Owned", "Uni"} /\ self.tid.k = "ForeignFloat"
    THEN Shape_Float(self.tid.id)
    ELSE IF self.tag = "Pointer" THEN Shape_Pointer
    ELSE Shape_Owned

\* TypeRef::shape: the instances it interns
RECURSIVE shape_interns(_)
shape_interns(self) ==
    IF self.tag \in {"Owned", "Uni", "Mut", "UniMut", "Ref", "UniRef"}
       /\ self.tid.k = "ClassInstance"
    THEN ClassInstance_shape_interns(self.tid)
    ELSE IF self.tag = "Placeholder" /\ value(self.pid) # None
    THEN shape_interns(value(self.pid)[1])
    ELSE <<>>

-----------------------------------------------------------------------------
(* The database the declarations of a program leave behind: the builtin    *)
(* classes of Database::new, then the classes, traits and type parameters  *)
(* that Class::alloc, ClassId::set_stack_allocated, Trait::alloc,          *)
(* new_type_parameter, TypeParameterId::set_mutable and                    *)
(* TypeParameterId::set_stack_allocated declared.                          *)

ThingId == FIRST_USER_CLASS_ID         \* class Thing
InlineId == FIRST_USER_CLASS_ID + 1    \* class inline Inline
ExternId == FIRST_USER_CLASS_ID + 2    \* class extern Extern
ProcId == FIRST_USER_CLASS_ID + 3      \* class async Proc
BoxId == FIRST_USER_CLASS_ID + 4       \* class Box[T]
StackId == FIRST_USER_CLASS_ID + 5     \* class inline Stack[T]
PairId == FIRST_USER_CLASS_ID + 6      \* class inline Pair[K, V]

ParamA == 0         \* a type parameter A
ParamMutable == 1   \* a type parameter A: mut
ParamStack == 2     \* a type parameter A: inline
ParamBoxT == 3      \* T of Box[T]
ParamStackT == 4    \* T of Stack[T]
ParamPairK == 5     \* K of Pair[K, V]
ParamPairV == 6     \* V of Pair[K, V]
ParamEqualT == 7    \* T of Equal[T]
ParamP1 == 8        \* P1 of trait A[P1]
ParamP2 == 9        \* P2 of trait B[P2]
ParamP3 == 10       \* P3 of trait C[P3]

ToStringId == 0     \* trait ToString
EqualId == 1        \* trait Equal[T]
TraitAId == 2       \* trait A[P1]
TraitBId == 3       \* trait B[P2]
TraitCId == 4       \* trait C[P3]

FooModuleId == 0        \* module std.foo, which declares the classes and traits
BarModuleId == 1        \* module std.bar
BlaModuleId == 2        \* module bla
TestBlaModuleId == 3    \* module test_bla
TestStdModuleId == 4    \* module test_std
TestBlaXModuleId == 5   \* module test_bla.x

DeclaredModuleNames ==
    <<ModuleName_new(<<<<"std">>, <<"foo">>>>),
      ModuleName_new(<<<<"std">>, <<"bar">>>>),
      ModuleName_new(<<<<"bla">>>>),
      ModuleName_new(<<<<"test_", "bla">>>>),
      ModuleName_new(<<<<"test_", "std">>>>),
      ModuleName_new(<<<<"test_", "bla">>, <<"x">>>>)>>

\* The ID of the class of module m.
ModuleClassId(m) == FIRST_USER_CLASS_ID + 7 + m

DeclaredModules ==
    [m \in 1 .. Len(DeclaredModuleNames) |->
        Module_new(DeclaredModuleNames[m], ModuleClassId(m - 1))]

DeclaredModuleMapping ==
    {<<ModuleName_as_str(DeclaredModuleNames[m]), m - 1>> :
        m \in 1 .. Len(DeclaredModuleNames)}

DeclaredClasses ==
    Database_new_classes \o
    <<Class_new("Thing", "Regular", "Public", FooModuleId),
      [Class_new("Inline", "Regular", "Public", FooModuleId)
          EXCEPT !.storage = "Stack"],
      Class_new("Extern", "Extern", "Public", FooModuleId),
      Class_new("Proc", "Async", "Public", FooModuleId),
      [Class_new("Box", "Regular", "Public", FooModuleId)
          EXCEPT !.type_parameters = <<ParamBoxT>>],
      [Class_new("Stack", "Regular", "Public", FooModuleId)
          EXCEPT !.storage = "Stack", !.type_parameters = <<ParamStackT>>],
      [Class_new("Pair", "Regular", "Public", FooModuleId)
          EXCEPT !.storage = "Stack",
                 !.type_parameters = <<ParamPairK, ParamPairV>>]>>
    \o [m \in 1 .. Len(DeclaredModuleNames) |->
           Class_new(DeclaredModuleNames[m], "Module", "Private", m - 1)]

DeclaredTypeParameters ==
    <<TypeParameter_new,
      [TypeParameter_new EXCEPT !.mutable = TRUE],
      [TypeParameter_new EXCEPT !.stack = TRUE],
      TypeParameter_new, TypeParameter_new, TypeParameter_new,
      TypeParameter_new, TypeParameter_new, TypeParameter_new,
      TypeParameter_new, TypeParameter_new>>

DeclaredTraits ==
    <<Trait_new("Public", FooModuleId),
      [Trait_new("Public", FooModuleId)
          EXCEPT !.type_parameters = <<ParamEqualT>>],
      [Trait_new("Public", FooModuleId)
          EXCEPT !.type_parameters = <<ParamP1>>],
      [Trait_new("Public", FooModuleId)
          EXCEPT !.type_parameters = <<ParamP2>>],
      [Trait_new("Public", FooModuleId)
          EXCEPT !.type_parameters = <<ParamP3>>]>>

\* The record of a call: the operation, its receiver, its argument and
\* what it returned (a sequence of at most one value).
Call(op, self, arg, res) == [op |-> op, self |-> self, arg |-> arg, res |-> res]

NoCall == Call("new", Unknown, Unknown, <<>>)

\* Database::new followed by the declarations.
InitDatabase ==
    /\ classes = DeclaredClasses
    /\ traits = DeclaredTraits
    /\ type_parameters = DeclaredTypeParameters
    /\ type_arguments = <<>>
    /\ modules = DeclaredModules
    /\ module_mapping = DeclaredModuleMapping
    /\ methods = <<>>
    /\ fields = <<>>
    /\ constants = <<>>
    /\ closures = <<>>
    /\ variables = <<>>
    /\ constructors = <<>>
    /\ cache = {}
    /\ mapping = {}
    /\ ret = NoCall

-----------------------------------------------------------------------------
(* Inference: placeholders are allocated, assigned and read. *)

\* The IDs of the placeholders allocated so far.
PlaceholderIds == 0 .. Len(type_placeholders) - 1

\* The ownership of the references a placeholder is assigned to itself with.
SelfOwnership == {"Any", "Ref"}

\* The values assigned to placeholder p: a value type, a type parameter, a
\* reference to another placeholder and a reference to p itself.
AssignedValues(p) ==
    {TypeRef_int, Any(TypeParameter(ParamA))}
    \cup {Placeholder(TypePlaceholderId(q, "Any")) : q \in PlaceholderIds \ {p}}
    \cup {Placeholder(TypePlaceholderId(p, o)) : o \in SelfOwnership}

\* TypePlaceholder::alloc
TypePlaceholder_alloc ==
    /\ Len(type_placeholders) < MaxPlaceholders
    /\ type_placeholders' =
           Append(type_placeholders, [value |-> Unknown, required |-> None])
    /\ ret' = Call("alloc", Unknown, Unknown,
                   <<Placeholder(TypePlaceholderId(Len(type_placeholders),
                                                   "Any"))>>)
    /\ UNCHANGED <<declarations, type_arguments, interned, held>>

\* assign_internal without the test for a reference to the placeholder
\* itself.
assign_internal_cells_unguarded(self, val) ==
    [type_placeholders EXCEPT ![self.id + 1].value = val]

\* assign_internal storing a value in a cell that holds Unknown only.
assign_internal_cells_once(self, val) ==
    IF (val.tag = "Placeholder" /\ val.pid.id = self.id)
       \/ type_placeholders[self.id + 1].value # Unknown
    THEN type_placeholders
    ELSE [type_placeholders EXCEPT ![self.id + 1].value = val]

\* The cells after TypePlaceholderId::assign_internal(self, value).
assign_internal_cells(self, val) ==
    IF val.tag = "Placeholder" /\ val.pid.id = self.id
    THEN type_placeholders
    ELSE [type_placeholders EXCEPT ![self.id + 1].value = val]

\* TypePlaceholderId::assign_internal
assign_internal(self, val) ==
    /\ type_placeholders' = assign_internal_cells(self, val)
    /\ ret' = Call("assign_internal", Placeholder(self), val, <<>>)
    /\ UNCHANGED <<declarations, type_arguments, interned, held>>

\* TypePlaceholderId::assign
assign(self, val) ==
    /\ type_placeholders' = assign_internal_cells(self, val)
    /\ ret' = Call("assign", Placeholder(self), val, <<>>)
    /\ UNCHANGED <<declarations, type_arguments, interned, held>>

\* A call of TypePlaceholderId::value: it reads the database.
Value(self) ==
    /\ ret' = Call("value", Placeholder(self), Unknown, value(self))
    /\ UNCHANGED <<declarations, type_placeholders, type_arguments,
                   interned, held>>

AssignInternal ==
    \E p \in PlaceholderIds : \E v \in AssignedValues(p) :
        assign_internal(TypePlaceholderId(p, "Any"), v)

Assign ==
    \E p \in PlaceholderIds : \E v \in AssignedValues(p) :
        assign(TypePlaceholderId(p, "Any"), v)

ReadValue ==
    \E p \in PlaceholderIds, o \in Ownership :
        Value(TypePlaceholderId(p, o))

InitInference ==
    /\ InitDatabase
    /\ type_placeholders = <<>>
    /\ held = Unknown

NextInference ==
    \/ TypePlaceholder_alloc
    \/ AssignInternal
    \/ Assign
    \/ ReadValue

SpecInference == InitInference /\ [][NextInference]_vars

-----------------------------------------------------------------------------
(* Properties of placeholders. *)

\* The value in the cell of placeholder p.
Cell(p) == type_placeholders[p + 1].value

\* The value in the last cell of the chain of placeholders that starts at p,
\* or Diverges when the chain comes back to a placeholder it went through.
RECURSIVE ChainLast(_, _)
ChainLast(p, seen) ==
    IF Cell(p).tag # "Placeholder"
    THEN Cell(p)
    ELSE IF Cell(p).pid.id \in seen \cup {p}
         THEN Diverges
         ELSE ChainLast(Cell(p).pid.id, seen \cup {p})

\* Every reference stored along the chain that starts at p is tagged Any.
RECURSIVE ChainOfAny(_, _)
ChainOfAny(p, seen) ==
    IF Cell(p).tag # "Placeholder"
    THEN TRUE
    ELSE /\ Cell(p).pid.ownership = "Any"
         /\ \/ Cell(p).pid.id \in seen \cup {p}
            \/ ChainOfAny(Cell(p).pid.id, seen \cup {p})

\* The number of placeholder cells the chain that starts at p goes through.
RECURSIVE ChainLength(_, _)
ChainLength(p, seen) ==
    IF Cell(p).tag # "Placeholder" \/ Cell(p).pid.id \in seen \cup {p}
    THEN 1
    ELSE 1 + ChainLength(Cell(p).pid.id, seen \cup {p})

\* The last call was value() on a reference to a placeholder.
ReadOf(o) == ret.op = "value" /\ ret.self.pid.ownership = o

\* C1: value() read through an Any-tagged reference to a placeholder of an
\* acyclic chain of Any-tagged placeholders returns Some(V), V the value of
\* the last cell of the chain, and None when that cell is still Unknown.
C1_ChainResolution ==
    (/\ ReadOf("Any")
     /\ ChainLast(ret.self.pid.id, {}) # Diverges
     /\ ChainOfAny(ret.self.pid.id, {}))
    => ret.res = IF ChainLast(ret.self.pid.id, {}) = Unknown
                 THEN None
                 ELSE Some(ChainLast(ret.self.pid.id, {}))

\* P1 -> P2 -> P3 -> Int was read through P1 and gave Int.
C1_Witness ==
    /\ ReadOf("Any")
    /\ ChainLength(ret.self.pid.id, {}) = 3
    /\ ChainLast(ret.self.pid.id, {}) = TypeRef_int
    /\ ret.res = Some(TypeRef_int)

\* The conversion the ownership tag of a reference stands for.
ConversionOf(o, v) ==
    CASE o = "Any" -> v
      [] o = "Owned" -> as_owned(v)
      [] o = "Uni" -> as_uni(v)
      [] o = "Ref" -> as_ref(v)
      [] o = "Mut" -> force_as_mut(v)
      [] o = "UniRef" -> as_uni_ref(v)
      [] o = "UniMut" -> force_as_uni_mut(v)
      [] o = "Pointer" -> as_pointer(v)

\* The cell of the placeholder last read holds an assigned value that is not
\* a placeholder.
ReadOfAssigned ==
    /\ ret.op = "value"
    /\ Cell(ret.self.pid.id).tag \notin {"Placeholder", "Unknown"}

\* C2: value() read through a reference tagged O to a placeholder whose cell
\* holds a value V that is not a placeholder returns V converted by the
\* conversion of O, and a call of value() changes no placeholder cell.
C2_DeferredOwnership ==
    /\ [](ReadOfAssigned =>
            ret.res = Some(ConversionOf(ret.self.pid.ownership,
                                        Cell(ret.self.pid.id))))
    /\ [][ret'.op = "value" => type_placeholders' = type_placeholders]_vars

\* A placeholder assigned the type parameter A was read through a reference
\* tagged Mut and gave a mutable reference to A, the cell still holding Any.
C2_Witness ==
    /\ ReadOfAssigned
    /\ ret.self.pid.ownership = "Mut"
    /\ Cell(ret.self.pid.id) = Any(TypeParameter(ParamA))
    /\ ret.res = Some(Mut(TypeParameter(ParamA)))

\* The last call assigned a placeholder a reference to itself.
SelfAssigned(call) ==
    /\ call.op \in {"assign", "assign_internal"}
    /\ call.arg.tag = "Placeholder"
    /\ call.arg.pid.id = call.self.pid.id

\* C3: assign and assign_internal of a reference to p, whatever its tag, to
\* the placeholder p leave every cell as it was: an unassigned p still reads
\* None, an assigned p reads its value as before, and the assignment makes
\* no value() call loop that returned before it.
C3_SelfAssignment ==
    [][\A p \in PlaceholderIds :
        (SelfAssigned(ret') /\ ret'.self.pid.id = p) =>
            /\ type_placeholders' = type_placeholders
            /\ \A o \in Ownership :
                   /\ value(TypePlaceholderId(p, o))' =
                          value(TypePlaceholderId(p, o))
                   /\ (Cell(p) = Unknown =>
                          value(TypePlaceholderId(p, o))' = None)]_vars

\* A placeholder that holds Int was assigned a Ref-tagged reference to
\* itself, and still holds Int.
C3_Witness ==
    /\ SelfAssigned(ret)
    /\ ret.arg.pid.ownership = "Ref"
    /\ Cell(ret.self.pid.id) = TypeRef_int

\* An unassigned placeholder was assigned itself and reads None.
C3_WitnessUnassigned ==
    /\ SelfAssigned(ret)
    /\ Cell(ret.self.pid.id) = Unknown
    /\ value(ret.self.pid) = None

-----------------------------------------------------------------------------
(* The ownership algebra: a caller holds a TypeRef and converts it. *)

\* The TypeIds the callers hold: instances of Int, String, Thing, Inline,
\* Extern and Proc, type parameters, a module, a foreign type and a closure.
HeldTypeIds ==
    {ClassInstance_new(c) :
        c \in {INT_ID, STRING_ID, ThingId, InlineId, ExternId, ProcId}}
    \cup {TypeParameter(p) : p \in {ParamA, ParamMutable, ParamStack}}
    \cup {RigidTypeParameter(p) : p \in {ParamA, ParamStack}}
    \cup {AtomicTypeParameter(ParamA), Module(0), ForeignInt(32, 1),
          TypeId("Closure", 0, 0)}

\* The constructors of TypeRef that wrap a TypeId.
Qualifiers ==
    {"Owned", "Uni", "Ref", "Mut", "UniRef", "UniMut", "Any", "Pointer"}

\* The values inference assigned to the first placeholder.
ResolvedValues ==
    {TypeRef(q, t) : q \in {"Owned", "Uni", "Ref", "Any"}, t \in HeldTypeIds}
    \cup {Unknown, Error}

\* The TypeRefs the callers hold.
HeldTypeRefs ==
    {TypeRef(q, t) : q \in Qualifiers, t \in HeldTypeIds}
    \cup {Never, Error, Unknown}
    \cup {Placeholder(TypePlaceholderId(p, o)) : p \in {0, 1}, o \in Ownership}

\* The conversions of TypeRef.
Conversions ==
    {"as_owned", "as_uni", "as_ref", "as_mut", "force_as_mut", "as_pointer",
     "as_uni_ref", "as_uni_mut", "force_as_uni_mut"}

\* The conversion named op applied to self.
Apply(op, self) ==
    CASE op = "as_owned" -> as_owned(self)
      [] op = "as_uni" -> as_uni(self)
      [] op = "as_ref" -> as_ref(self)
      [] op = "as_mut" -> as_mut(self)
      [] op = "force_as_mut" -> force_as_mut(self)
      [] op = "as_pointer" -> as_pointer(self)
      [] op = "as_uni_ref" -> as_uni_ref(self)
      [] op = "as_uni_mut" -> as_uni_mut(self)
      [] op = "force_as_uni_mut" -> force_as_uni_mut(self)

\* A call of a conversion on the TypeRef held: it reads the database.
Convert(op, res) ==
    /\ ret' = Call(op, held, Unknown, <<res>>)
    /\ UNCHANGED <<declarations, type_placeholders, type_arguments,
                   interned, held>>

AsOwned == Convert("as_owned", as_owned(held))
AsUni == Convert("as_uni", as_uni(held))
AsRef == Convert("as_ref", as_ref(held))
AsMut == Convert("as_mut", as_mut(held))
ForceAsMut == Convert("force_as_mut", force_as_mut(held))
AsPointer == Convert("as_pointer", as_pointer(held))
AsUniRef == Convert("as_uni_ref", as_uni_ref(held))
AsUniMut == Convert("as_uni_mut", as_uni_mut(held))
ForceAsUniMut == Convert("force_as_uni_mut", force_as_uni_mut(held))

\* Inference left two placeholders: the first unassigned or assigned a
\* value, the second unassigned or assigned a reference to the first.
InitOwnership ==
    /\ InitDatabase
    /\ \E v \in ResolvedValues :
       \E w \in {Unknown, Placeholder(TypePlaceholderId(0, "Any")),
                 Placeholder(TypePlaceholderId(0, "Mut"))} :
           type_placeholders = <<[value |-> v, required |-> None],
                                 [value |-> w, required |-> None]>>
    /\ held \in HeldTypeRefs

NextOwnership ==
    \/ AsOwned
    \/ AsUni
    \/ AsRef
    \/ AsMut
    \/ ForceAsMut
    \/ AsPointer
    \/ AsUniRef
    \/ AsUniMut
    \/ ForceAsUniMut

SpecOwnership == InitOwnership /\ [][NextOwnership]_vars

-----------------------------------------------------------------------------
(* Properties of the ownership algebra. *)

\* self is an instance of a class of the given kind and storage.
IsInstance(self) == self.tid.k = "ClassInstance"

\* The last call converted an owned value type that is not a placeholder.
ConvertedOwnedValueType(op) ==
    /\ ret.op = op
    /\ ret.self.tag = "Owned"
    /\ is_value_type(ret.self)

\* C8 as claimed: for every owned value type x that is not a placeholder,
\* instances of extern classes included, as_owned(as_ref(x)) = as_owned(x).
C8_Original ==
    ConvertedOwnedValueType("as_ref")
    => as_owned(ret.res[1]) = as_owned(ret.self)

\* C8, amended: for every owned value type x that is neither a placeholder
\* nor an instance of an extern class, as_owned(as_ref(x)) = as_owned(x).
C8_OwnershipStability ==
    (/\ ConvertedOwnedValueType("as_ref")
     /\ ~is_extern_instance(ret.self))
    => as_owned(ret.res[1]) = as_owned(ret.self)

\* as_ref of an owned String, an atomic class, gave a Ref that as_owned
\* turns back into the owned String.
C8_Witness ==
    /\ ConvertedOwnedValueType("as_ref")
    /\ ret.self = TypeRef_string
    /\ ret.res = <<Ref(ClassInstance_new(STRING_ID))>>
    /\ as_owned(ret.res[1]) = TypeRef_string

\* C9: as_ref, as_mut, force_as_mut and as_pointer of an owned instance of
\* an extern class return a Pointer to the instance; as_ref and as_mut of
\* an owned instance of another stack-allocated class return the owned
\* reference itself.
C9_ExternPointers ==
    /\ (/\ ret.op \in {"as_ref", "as_mut", "force_as_mut", "as_pointer"}
        /\ ret.self.tag = "Owned"
        /\ IsInstance(ret.self)
        /\ ClassId_kind(ret.self.tid.id) = "Extern")
       => ret.res = <<Pointer(ret.self.tid)>>
    /\ (/\ ret.op \in {"as_ref", "as_mut"}
        /\ ret.self.tag = "Owned"
        /\ IsInstance(ret.self)
        /\ ClassId_kind(ret.self.tid.id) # "Extern"
        /\ ClassId_is_stack_allocated(ret.self.tid.id))
       => ret.res = <<ret.self>>

\* as_ref of an owned Extern gave a pointer to Extern.
C9_Witness ==
    /\ ret.op = "as_ref"
    /\ ret.self = Owned(ClassInstance_new(ExternId))
    /\ ret.res = <<Pointer(ClassInstance_new(ExternId))>>

\* The ownership a conversion requests of an unresolved placeholder.
RequestedOwnership(op) ==
    CASE op = "as_owned" -> "Owned"
      [] op = "as_uni" -> "Uni"
      [] op = "as_ref" -> "Ref"
      [] op = "as_mut" -> "Mut"
      [] op = "force_as_mut" -> "Mut"
      [] op = "as_pointer" -> "Pointer"
      [] op = "as_uni_ref" -> "UniRef"
      [] op = "as_uni_mut" -> "UniMut"
      [] op = "force_as_uni_mut" -> "UniMut"

\* The last call converted a reference to a placeholder.
ConvertedPlaceholder ==
    /\ ret.op \in Conversions
    /\ ret.self.tag = "Placeholder"

\* What C10 says a conversion of a reference to a placeholder returns.
ThroughPlaceholder(op, self) ==
    IF value(self.pid) = None
    THEN Placeholder(TypePlaceholderId(self.pid.id, RequestedOwnership(op)))
    ELSE Apply(op, value(self.pid)[1])

\* No conversion writes a placeholder cell.
ConversionsReadOnly ==
    [][ret'.op \in Conversions =>
        type_placeholders' = type_placeholders]_vars

\* C10 as claimed: every conversion of a reference to an unresolved
\* placeholder returns a reference to the same placeholder with the
\* ownership the conversion requests, the cell staying Unknown, and every
\* conversion of a reference to a resolved placeholder returns the
\* conversion of the value() of the reference.
C10_Original ==
    ConvertedPlaceholder => ret.res = <<ThroughPlaceholder(ret.op, ret.self)>>

\* C10, amended: as claimed, except that as_uni of a reference to a
\* placeholder resolved to a value type returns the reference itself.
C10_ThroughPlaceholders ==
    /\ [](ConvertedPlaceholder =>
            ret.res = IF ret.op = "as_uni" /\ is_value_type(ret.self)
                      THEN <<ret.self>>
                      ELSE <<ThroughPlaceholder(ret.op, ret.self)>>)
    /\ ConversionsReadOnly

\* as_pointer of a reference to an unresolved placeholder gave a reference
\* tagged Pointer, and as_ref of a Mut-tagged reference to a placeholder
\* resolved to Thing gave what as_ref gives of a mutable Thing.
C10_Witness ==
    /\ ret.op = "as_pointer"
    /\ ret.self = Placeholder(TypePlaceholderId(1, "Any"))
    /\ value(ret.self.pid) = None
    /\ ret.res = <<Placeholder(TypePlaceholderId(1, "Pointer"))>>

C10_WitnessResolved ==
    /\ ret.op = "as_ref"
    /\ ret.self = Placeholder(TypePlaceholderId(1, "Mut"))
    /\ value(ret.self.pid) = Some(Mut(ClassInstance_new(ThingId)))
    /\ ret.res = <<Ref(ClassInstance_new(ThingId))>>


\* The TypeRef converted is a reference to a type parameter, plain or rigid.
ConvertedParameter == IsParameter(ret.self.tid)

\* C11 (as stated): as_ref, as_mut and force_as_mut of an Owned, Any, Ref,
\* Mut or Uni reference to a stack allocated type parameter return Owned of
\* the parameter.
C11_StackParameters ==
    (/\ ret.op \in {"as_ref", "as_mut", "force_as_mut"}
     /\ ret.self.tag \in {"Owned", "Any", "Ref", "Mut", "Uni"}
     /\ ConvertedParameter
     /\ TypeParameterId_is_stack_allocated(ret.self.tid.id))
    => ret.res = <<Owned(ret.self.tid)>>

\* as_mut of a unique reference to a stack allocated parameter gave Owned.
C11_Witness ==
    /\ ret.op = "as_mut"
    /\ ret.self = Uni(TypeParameter(ParamStack))
    /\ ret.res = <<Owned(TypeParameter(ParamStack))>>

\* as_mut was applied to an Any, Owned or Mut reference to a type parameter
\* that is not stack allocated.
ConvertedHeapParameter ==
    /\ ret.op = "as_mut"
    /\ ret.self.tag \in {"Any", "Owned", "Mut"}
    /\ ConvertedParameter
    /\ ~TypeParameterId_is_stack_allocated(ret.self.tid.id)

\* C12 (as stated): as_mut of an Any, Owned or Mut reference to a type
\* parameter that is not stack allocated is Mut of the parameter when the
\* parameter is mutable and Ref of it when it is not.
C12_Original ==
    ConvertedHeapParameter
    => ret.res = IF type_parameters[ret.self.tid.id + 1].mutable
                 THEN <<Mut(ret.self.tid)>>
                 ELSE <<Ref(ret.self.tid)>>

\* C12 (amended): as_mut of an Any reference to a type parameter that is not
\* stack allocated is Mut of the parameter when the parameter is mutable and
\* Ref of it when it is not; as_mut of an Owned or Mut reference to such a
\* parameter is Mut of the parameter whatever the flag.
C12_MutableFlag ==
    ConvertedHeapParameter
    => ret.res = IF ret.self.tag = "Any"
                    /\ ~type_parameters[ret.self.tid.id + 1].mutable
                 THEN <<Ref(ret.self.tid)>>
                 ELSE <<Mut(ret.self.tid)>>

\* as_mut of an Any reference to the mutable parameter gave Mut.
C12_Witness ==
    /\ ConvertedHeapParameter
    /\ ret.self = Any(TypeParameter(ParamMutable))
    /\ ret.res = <<Mut(TypeParameter(ParamMutable))>>

\* The TypeRef converted wraps a TypeId that is neither an instance of a
\* value type class nor a stack allocated type parameter.
ForcedInput ==
    /\ ret.self.tag \in {"Owned", "Any", "Uni", "Ref", "Mut", "UniRef",
                         "UniMut"}
    /\ ~(IsInstance(ret.self) /\ ClassId_is_value_type(ret.self.tid.id))
    /\ ~(ConvertedParameter
         /\ TypeParameterId_is_stack_allocated(ret.self.tid.id))

\* C13 (as stated): of such a TypeRef, force_as_mut is Mut for Owned, Any,
\* Ref and Mut and UniMut for Uni, and force_as_uni_mut is UniMut for
\* Owned, Any, Uni, Ref, Mut, UniRef and UniMut.
C13_ForcedConversions ==
    /\ (/\ ret.op = "force_as_mut"
        /\ ForcedInput
        /\ ret.self.tag \in {"Owned", "Any", "Ref", "Mut"})
       => ret.res = <<Mut(ret.self.tid)>>
    /\ (ret.op = "force_as_mut" /\ ForcedInput /\ ret.self.tag = "Uni")
       => ret.res = <<UniMut(ret.self.tid)>>
    /\ (ret.op = "force_as_uni_mut" /\ ForcedInput)
       => ret.res = <<UniMut(ret.self.tid)>>

\* force_as_mut of an owned parameter that is not mutable gave Mut.
C13_Witness ==
    /\ ret.op = "force_as_mut"
    /\ ret.self = Owned(TypeParameter(ParamA))
    /\ ret.res = <<Mut(TypeParameter(ParamA))>>

-----------------------------------------------------------------------------
(* Interning: generic instances are created and their type arguments are
   interned. *)

\* The generic class whose type parameters are the keys of args.
ClassOfArguments(args) ==
    CHOOSE c \in 0 .. Len(classes) - 1 :
        /\ ClassId_is_generic(c)
        /\ {ClassId_type_parameters(c)[i] :
               i \in 1 .. Len(ClassId_type_parameters(c))}
           = TypeArguments_keys(args)

\* The generic instances created so far.
Instances ==
    {ClassInstance(ClassOfArguments(type_arguments[i + 1]), i) :
        i \in 0 .. Len(type_arguments) - 1}

\* One entry of a TypeArguments map.
Entry(key, val) == [key |-> key, value |-> val]

\* The maps that assign x to K and y to V of Pair[K, V]: the same entries,
\* iterated in either order.
PairArguments(x, y) ==
    {<<Entry(ParamPairK, x), Entry(ParamPairV, y)>>,
     <<Entry(ParamPairV, y), Entry(ParamPairK, x)>>}

\* The type arguments instances are created with: Stack[Int], Stack[S] for
\* an instance S of Stack created before, Pair[Int, String] and
\* Pair[String, Int].
InternedArguments(c) ==
    IF c = StackId
    THEN {<<Entry(ParamStackT, v)>> :
             v \in {TypeRef_int}
                   \cup {Owned(i) : i \in {j \in Instances : j.id = StackId}}}
    ELSE PairArguments(TypeRef_int, TypeRef_string)
         \cup PairArguments(TypeRef_string, TypeRef_int)

\* ClassInstance::generic
ClassInstance_generic(instance_of, arguments) ==
    /\ Len(type_arguments) < MaxTypeArguments
    /\ type_arguments' = Append(type_arguments, arguments)
    /\ ret' = Call("generic", Unknown, Unknown,
                   <<Owned(ClassInstance(instance_of, Len(type_arguments)))>>)
    /\ UNCHANGED <<declarations, type_placeholders, interned, held>>

\* InternedTypeArguments::intern
intern(instance) ==
    /\ cache' = intern_cache(instance)
    /\ mapping' = intern_mapping(instance)
    /\ ret' = Call("intern", Owned(instance), Unknown,
                   <<Owned(ClassInstance(instance.id, intern_id(instance)))>>)
    /\ UNCHANGED <<declarations, type_placeholders, type_arguments, held>>

Generic ==
    \E c \in {StackId, PairId} : \E args \in InternedArguments(c) :
        ClassInstance_generic(c, args)

Intern == \E i \in Instances : intern(i)

InitInterning ==
    /\ InitDatabase
    /\ type_placeholders = <<>>
    /\ held = Unknown

NextInterning ==
    \/ Generic
    \/ Intern

SpecInterning == InitInterning /\ [][NextInterning]_vars

-----------------------------------------------------------------------------
(* Properties of interning. *)

\* Instances a and b are structurally equal: the same class, and for every
\* type parameter structurally equal arguments.
RECURSIVE StructurallyEqual(_, _)
StructurallyEqual(a, b) ==
    IF a.tag # "Owned" \/ b.tag # "Owned" \/ a.tid.k # "ClassInstance"
       \/ b.tid.k # "ClassInstance"
    THEN a = b
    ELSE /\ a.tid.id = b.tid.id
         /\ \/ ~ClassId_is_generic(a.tid.id)
            \/ LET x == type_arguments[a.tid.targs + 1]
                   y == type_arguments[b.tid.targs + 1]
               IN  /\ TypeArguments_keys(x) = TypeArguments_keys(y)
                   /\ \A k \in TypeArguments_keys(x) :
                          StructurallyEqual(TypeArguments_get(x, k)[1],
                                            TypeArguments_get(y, k)[1])

\* The instances interned so far.
Interned == {e[1] : e \in cache}

\* C4 (as stated): interning is deterministic for every generic class, also
\* one with two or more type parameters: two structurally equal instances
\* that were interned have the same ID, the ID is the type_arguments of a
\* structurally equal instance, and interning an instance again returns the
\* ID it got before.
C4_InterningDeterminism ==
    /\ \A a, b \in Interned :
           StructurallyEqual(Owned(a), Owned(b))
               => HashMap_get(cache, a) = HashMap_get(cache, b)
    /\ \A a \in Interned :
           /\ StructurallyEqual(
                  Owned(a),
                  Owned(ClassInstance(a.id, HashMap_get(cache, a))))
           /\ intern_id(a) = HashMap_get(cache, a)

\* Two instances of Pair[Int, String] whose maps iterate in different orders
\* were interned.
C4_Witness ==
    \E a, b \in Interned :
        /\ a # b
        /\ a.id = PairId
        /\ StructurallyEqual(Owned(a), Owned(b))
        /\ type_arguments[a.targs + 1] # type_arguments[b.targs + 1]


-----------------------------------------------------------------------------
(* Specialization: instances of generic classes are created with inferred
   or given type arguments, and the shapes of the instances are computed. *)

\* The type arguments are given or inferred as Int or Float.
SpecializedArguments == {TypeRef_int, TypeRef_float}

\* The tables of the shapes of type parameters that shapes are computed with.
SpecializedShapes ==
    {[p \in {} |-> Shape_Owned], [p \in {ParamStackT} |-> Shape_int]}

\* The placeholders among the type arguments of instance i.
InstancePlaceholders(i) ==
    LET args == type_arguments[i.targs + 1]
    IN  {args[n].value.pid.id :
            n \in {m \in 1 .. Len(args) : args[m].value.tag = "Placeholder"}}

\* ClassInstance::empty of a class with one type parameter
ClassInstance_empty(class) ==
    IF ~ClassId_is_generic(class)
    THEN /\ ret' = Call("empty", Unknown, Unknown,
                        <<Owned(ClassInstance_new(class))>>)
         /\ UNCHANGED <<declarations, type_placeholders, type_arguments,
                        interned, held>>
    ELSE /\ Len(type_arguments) < MaxInstances
         /\ type_placeholders' =
                Append(type_placeholders,
                       [value |-> Unknown,
                        required |-> Some(ClassId_type_parameters(class)[1])])
         /\ type_arguments' =
                Append(type_arguments,
                       <<Entry(ClassId_type_parameters(class)[1],
                               Placeholder(TypePlaceholderId(
                                   Len(type_placeholders), "Any")))>>)
         /\ ret' = Call("empty", Unknown, Unknown,
                        <<Owned(ClassInstance(class, Len(type_arguments)))>>)
         /\ UNCHANGED <<declarations, interned, held>>

\* TypeRef::shape, with what it leaves in the interner
Shape_of(self, shapes) ==
    /\ ret' = Call("shape", self, shapes, <<shape(self, shapes)>>)
    /\ cache' = IF shape_interns(self) = <<>>
                THEN cache
                ELSE intern_cache(shape_interns(self)[1])
    /\ mapping' = IF shape_interns(self) = <<>>
                  THEN mapping
                  ELSE intern_mapping(shape_interns(self)[1])
    /\ UNCHANGED <<declarations, type_placeholders, type_arguments, held>>

EmptyInstance == \E c \in {ThingId, BoxId, StackId} : ClassInstance_empty(c)

GenericInstance ==
    \E c \in {BoxId, StackId}, v \in SpecializedArguments :
        /\ Len(type_arguments) < MaxInstances
        /\ ClassInstance_generic(c, <<Entry(ClassId_type_parameters(c)[1], v)>>)

\* Inference assigns the placeholder of an instance before the shape of the
\* instance is computed.
InferArgument ==
    \E p \in PlaceholderIds, v \in SpecializedArguments :
        /\ \A i \in Interned : p \notin InstancePlaceholders(i)
        /\ assign(TypePlaceholderId(p, "Any"), v)

InstanceShape ==
    \E i \in Instances, s \in SpecializedShapes : Shape_of(Owned(i), s)

InitSpecialization ==
    /\ InitDatabase
    /\ type_placeholders = <<>>
    /\ held = Unknown

NextSpecialization ==
    \/ EmptyInstance
    \/ GenericInstance
    \/ InferArgument
    \/ InstanceShape

SpecSpecialization == InitSpecialization /\ [][NextSpecialization]_vars

-----------------------------------------------------------------------------
(* Properties of specialization. *)

\* Instance i was created by ClassInstance::empty and its placeholder was
\* assigned Int.
InferredInt(i) ==
    /\ InstancePlaceholders(i) # {}
    /\ \A p \in InstancePlaceholders(i) : Cell(p) = TypeRef_int

\* Instance i was created by ClassInstance::generic with Int for its type
\* parameter.
GivenInt(i) ==
    LET args == type_arguments[i.targs + 1]
    IN  \A n \in 1 .. Len(args) : args[n].value = TypeRef_int

C5_WitnessHeap ==
    \E e, d \in Instances :
        /\ e.id = BoxId
        /\ d.id = BoxId
        /\ InferredInt(e)
        /\ GivenInt(d)
        /\ ret.op = "shape"
        /\ ret.self = Owned(e)
        /\ ret.res[1] = Shape_Owned


-----------------------------------------------------------------------------
(* Shapes: a caller holds a TypeRef and computes its shape, with some table
   of the shapes of type parameters and some state of the interner. *)

\* The builtin classes with a shape of their own.
ShapedBuiltins == {INT_ID, FLOAT_ID, BOOL_ID, NIL_ID, STRING_ID}

\* The TypeIds whose shapes are computed: instances of the builtin classes,
\* of Thing, Inline and Proc, and type parameters.
ShapedTypeIds ==
    {ClassInstance_new(c) : c \in ShapedBuiltins \cup {ThingId, InlineId, ProcId}}
    \cup {TypeParameter(ParamA), RigidTypeParameter(ParamA),
          TypeParameter(ParamStackT), AtomicTypeParameter(ParamA)}

\* The TypeRefs whose shapes are computed.
ShapedTypeRefs ==
    {TypeRef(q, t) : q \in Qualifiers, t \in ShapedTypeIds}

\* The tables of the shapes of type parameters: empty, and with a shape for
\* one of the parameters.
ShapeTables ==
    {[p \in {} |-> Shape_Owned],
     [p \in {ParamA} |-> Shape_int],
     [p \in {ParamA} |-> Shape_Owned],
     [p \in {ParamStackT} |-> Shape_String]}

HeldShape == \E s \in ShapeTables : Shape_of(held, s)

StackInstance ==
    \E v \in SpecializedArguments :
        /\ Len(type_arguments) < MaxInstances
        /\ ClassInstance_generic(StackId, <<Entry(ParamStackT, v)>>)

InitShape ==
    /\ InitDatabase
    /\ type_placeholders = <<>>
    /\ held \in ShapedTypeRefs

NextShape ==
    \/ HeldShape
    \/ StackInstance
    \/ InstanceShape

SpecShape == InitShape /\ [][NextShape]_vars

-----------------------------------------------------------------------------
(* Properties of shapes. *)

\* The shape of the builtin class c.
BuiltinShape(c) ==
    CASE c = INT_ID -> Shape_Int(64, 1)
      [] c = FLOAT_ID -> Shape_Float(64)
      [] c = BOOL_ID -> Shape_Boolean
      [] c = NIL_ID -> Shape_Nil
      [] c = STRING_ID -> Shape_String

\* C6: the shape of an instance of Int, Float, Bool, Nil or String is the
\* fixed shape of the class (the 64-bit signed Int shape, the 64-bit Float
\* shape, Boolean, Nil, String) under Owned, Uni, Ref, Mut, UniRef and
\* UniMut, whatever the table of shapes and the state of the interner.
C6_BuiltinShapes ==
    (/\ ret.op = "shape"
     /\ ret.self.tag \in {"Owned", "Uni", "Ref", "Mut", "UniRef", "UniMut"}
     /\ ret.self.tid.k = "ClassInstance"
     /\ ret.self.tid.id \in ShapedBuiltins)
    => ret.res[1] = BuiltinShape(ret.self.tid.id)

\* The shape of a mutable reference to a String was computed with a table
\* that is not empty and an interner that is not empty.
C6_Witness ==
    /\ ret.op = "shape"
    /\ ret.self = Mut(ClassInstance_new(STRING_ID))
    /\ ret.res[1] = Shape_String
    /\ DOMAIN ret.arg # {}
    /\ cache # {}

\* The shape of a type parameter, plain or rigid, that the table of shapes
\* has no entry for was computed.
MissingShape ==
    /\ ret.op = "shape"
    /\ IsParameter(ret.self.tid)
    /\ ret.self.tid.id \notin DOMAIN ret.arg

-----------------------------------------------------------------------------
(* Traits: instances of generic traits are created and traits are declared
   to require them. *)

\* TypeArguments::assign: the entry of the parameter is replaced, or added.
TypeArguments_assign(args, parameter, val) ==
    IF parameter \in TypeArguments_keys(args)
    THEN [i \in 1 .. Len(args) |->
             IF args[i].key = parameter THEN Entry(parameter, val) ELSE args[i]]
    ELSE Append(args, Entry(parameter, val))

\* TypeArguments::copy_into and TypeArguments::move_into: every entry of
\* self is assigned in other.
RECURSIVE TypeArguments_copy_into(_, _)
TypeArguments_copy_into(self, other) ==
    IF self = <<>>
    THEN other
    ELSE TypeArguments_copy_into(
             Tail(self),
             TypeArguments_assign(other, Head(self).key, Head(self).value))

\* add_required_trait copying the arguments of the requirement only, without
\* the arguments the required trait inherited.
inherited_after_direct(self, requirement) ==
    TypeArguments_copy_into(
        IF TraitId_is_generic(requirement.id)
        THEN Instance_type_arguments(requirement)[1]
        ELSE <<>>,
        TraitId_get(self).inherited_type_arguments)

\* TraitId::add_required_trait: the inherited_type_arguments it leaves in
\* the trait self.
inherited_after(self, requirement) ==
    LET inherited == TraitId_get(requirement.id).inherited_type_arguments
        base == IF TraitId_is_generic(requirement.id)
                THEN TypeArguments_copy_into(
                         Instance_type_arguments(requirement)[1], inherited)
                ELSE inherited
    IN  TypeArguments_copy_into(base,
                                TraitId_get(self).inherited_type_arguments)

\* TraitId::add_required_trait
add_required_trait(self, requirement) ==
    /\ traits' =
           [traits EXCEPT
               ![self + 1].inherited_type_arguments =
                   inherited_after(self, requirement),
               ![self + 1].required_traits = Append(@, requirement)]
    /\ ret' = Call("add_required_trait", Owned(TraitInstance_new(self)),
                   Owned(requirement), <<>>)
    /\ UNCHANGED <<classes, type_parameters, type_placeholders,
                   type_arguments, modules, module_mapping, methods, fields,
                   constants, closures, variables, constructors, interned,
                   held>>

\* The most instances of generic traits created.
MaxTraitInstances == 2

\* TraitInstance::generic
TraitInstance_generic(instance_of, arguments) ==
    /\ Len(type_arguments) < MaxTraitInstances
    /\ type_arguments' = Append(type_arguments, arguments)
    /\ ret' = Call("generic", Unknown, Unknown,
                   <<Owned(TraitInstance(instance_of, Len(type_arguments)))>>)
    /\ UNCHANGED <<declarations, type_placeholders, interned, held>>

\* The most traits a trait is declared to require.
MaxRequiredTraits == 2

\* The arguments of the instances of trait t: A[Int] and A[P2], B[P3].
TraitArguments(t) ==
    IF t = TraitAId
    THEN {TypeRef_int, Any(TypeParameter(ParamP2))}
    ELSE {Any(TypeParameter(ParamP3))}

\* The generic trait whose type parameter is the key of args.
TraitOfArguments(args) ==
    CHOOSE t \in 0 .. Len(traits) - 1 :
        /\ TraitId_is_generic(t)
        /\ TraitId_get(t).type_parameters[1] \in TypeArguments_keys(args)

\* The instances of traits created so far, and the instance of ToString.
TraitInstances ==
    {TraitInstance(TraitOfArguments(type_arguments[i + 1]), i) :
        i \in 0 .. Len(type_arguments) - 1}
    \cup {TraitInstance_new(ToStringId)}

GenericTrait ==
    \E t \in {TraitAId, TraitBId} : \E v \in TraitArguments(t) :
        TraitInstance_generic(
            t, <<Entry(TraitId_get(t).type_parameters[1], v)>>)

\* A trait is declared to require an instance of a trait declared before it
\* that it does not require yet.
RequireTrait ==
    \E t \in {TraitAId, TraitBId, TraitCId}, r \in TraitInstances :
        /\ r.id < t
        /\ Len(TraitId_get(t).required_traits) < MaxRequiredTraits
        /\ \A i \in 1 .. Len(TraitId_get(t).required_traits) :
               TraitId_get(t).required_traits[i] # r
        /\ add_required_trait(t, r)

InitTraits ==
    /\ InitDatabase
    /\ type_placeholders = <<>>
    /\ held = Unknown

NextTraits ==
    \/ GenericTrait
    \/ RequireTrait

SpecTraits == InitTraits /\ [][NextTraits]_vars

-----------------------------------------------------------------------------
(* Properties of traits. *)

\* The inherited_type_arguments of trait t.
Inherited(t) == traits[t + 1].inherited_type_arguments

\* The type arguments of the trait instance r.
RequirementArguments(r) ==
    IF traits[r.id + 1].type_parameters # <<>>
    THEN type_arguments[r.targs + 1]
    ELSE <<>>

\* C14: add_required_trait(T, R) leaves T with its previous inherited
\* arguments overridden by the inherited arguments of the trait of R, those
\* overridden by the arguments of R; it appends R to the required traits of
\* T and changes no other trait.
C14_InheritedArguments ==
    [][\A t \in 0 .. Len(traits) - 1 :
        (ret'.op = "add_required_trait" /\ ret'.self.tid.id = t) =>
            LET r == ret'.arg.tid
                given == RequirementArguments(r)
                inherited == Inherited(r.id)
                before == Inherited(t)
                after == traits'[t + 1].inherited_type_arguments
            IN  /\ TypeArguments_keys(after) =
                       TypeArguments_keys(before)
                       \cup TypeArguments_keys(inherited)
                       \cup TypeArguments_keys(given)
                /\ Len(after) = Cardinality(TypeArguments_keys(after))
                /\ \A k \in TypeArguments_keys(after) :
                       TypeArguments_get(after, k) =
                           IF k \in TypeArguments_keys(given)
                           THEN TypeArguments_get(given, k)
                           ELSE IF k \in TypeArguments_keys(inherited)
                                THEN TypeArguments_get(inherited, k)
                                ELSE TypeArguments_get(before, k)
                /\ traits'[t + 1].required_traits =
                       Append(traits[t + 1].required_traits, r)
                /\ \A u \in 0 .. Len(traits) - 1 :
                       u # t => traits'[u + 1] = traits[u + 1]]_vars

\* B[P3] was added to C after A[P2] was added to B, and C has the mapping
\* P2 -> P3, P1 -> P2.
C14_Witness ==
    /\ ret.op = "add_required_trait"
    /\ ret.self.tid.id = TraitCId
    /\ ret.arg.tid.id = TraitBId
    /\ TypeArguments_keys(Inherited(TraitCId)) = {ParamP1, ParamP2}
    /\ TypeArguments_get(Inherited(TraitCId), ParamP2) =
           Some(Any(TypeParameter(ParamP3)))
    /\ TypeArguments_get(Inherited(TraitCId), ParamP1) =
           Some(Any(TypeParameter(ParamP2)))

-----------------------------------------------------------------------------
(* Type arguments: a table is filled by assign and read by get_recursive. *)

\* TypeRef::as_type_parameter
RECURSIVE as_type_parameter(_)
as_type_parameter(self) ==
    CASE self.tag \in {"Owned", "Uni", "Ref", "Mut", "Any"}
         /\ self.tid.k \in {"TypeParameter", "RigidTypeParameter"}
         -> Some(self.tid.id)
      [] self.tag \in {"UniRef", "UniMut"}
         /\ self.tid.k = "RigidTypeParameter" -> Some(self.tid.id)
      [] self.tag = "Placeholder" ->
         LET v == value(self.pid)
         IN  IF v = None THEN None ELSE as_type_parameter(v[1])
      [] OTHER -> None

\* The loop of TypeArguments::get_recursive, with the number of iterations
\* left: every iteration holds a value of the table that differs from the
\* one before, so a loop of more iterations than the table has entries
\* repeats a value and never ends.
RECURSIVE get_recursive_loop(_, _, _)
get_recursive_loop(self, found, left) ==
    IF found = None
    THEN None
    ELSE LET typ == found[1]
             id == as_type_parameter(typ)
         IN  IF left = 0
             THEN Some(Diverges)
             ELSE IF id = None
             THEN Some(typ)
             ELSE LET new == TypeArguments_get(self, id[1])
                  IN  CASE new = None -> Some(typ)
                        [] new = Some(typ) -> Some(typ)
                        [] OTHER -> get_recursive_loop(self, new, left - 1)

\* TypeArguments::get_recursive
get_recursive(self, parameter) ==
    get_recursive_loop(self, TypeArguments_get(self, parameter),
                       Len(self) + 1)

\* The parameters the table is about.
ArgumentParameters == {ParamP1, ParamP2, ParamP3}

\* The values assigned: Int, references to the parameters and to their rigid
\* forms, a UniRef of a parameter (which as_type_parameter does not take for
\* a parameter) and a placeholder assigned a reference to the parameter P2.
ArgumentValues ==
    {TypeRef_int, UniRef(TypeParameter(ParamP1)),
     Placeholder(TypePlaceholderId(0, "Any"))}
    \cup {Any(TypeParameter(q)) : q \in ArgumentParameters}
    \cup {Owned(RigidTypeParameter(q)) : q \in ArgumentParameters}

\* targs.assign(parameter, value)
AssignArgument ==
    \E parameter \in ArgumentParameters, v \in ArgumentValues :
        /\ held' = TypeArguments_assign(held, parameter, v)
        /\ ret' = Call("assign", Unknown, Any(TypeParameter(parameter)), <<v>>)
        /\ UNCHANGED <<declarations, type_placeholders, type_arguments,
                       interned>>

\* targs.get_recursive(db, parameter)
GetRecursive ==
    \E parameter \in ArgumentParameters :
        /\ ret' = Call("get_recursive", Unknown,
                       Any(TypeParameter(parameter)),
                       get_recursive(held, parameter))
        /\ UNCHANGED <<declarations, type_placeholders, type_arguments,
                       interned, held>>

\* TypeArguments::new, in a database with one placeholder assigned P2.
InitArguments ==
    /\ InitDatabase
    /\ type_placeholders =
           <<[value |-> Any(TypeParameter(ParamP2)), required |-> None]>>
    /\ held = <<>>

NextArguments ==
    \/ AssignArgument
    \/ GetRecursive

SpecArguments == InitArguments /\ [][NextArguments]_vars

-----------------------------------------------------------------------------
(* Properties of get_recursive. *)

\* The values of the alias chain of parameter p, of at most n links: the
\* value of p, the value of the parameter that value names, and so on.
RECURSIVE AliasChain(_, _)
AliasChain(p, n) ==
    LET v == TypeArguments_get(held, p)
    IN  IF v = None \/ n = 0
        THEN <<>>
        ELSE IF as_type_parameter(v[1]) = None
        THEN <<v[1]>>
        ELSE <<v[1]>> \o AliasChain(as_type_parameter(v[1])[1], n - 1)

\* Value v of a chain ends it: it is not a type parameter, or the parameter
\* it names is unassigned or is bound to v.
EndsChain(v) ==
    LET id == as_type_parameter(v)
    IN  \/ id = None
        \/ TypeArguments_get(held, id[1]) = None
        \/ TypeArguments_get(held, id[1]) = Some(v)

\* C15 (as stated): get_recursive(p) returns; it returns None exactly when p
\* is unassigned, and otherwise the first value of the alias chain of p that
\* is not a type parameter or whose parameter is unassigned or bound to that
\* same value.
C15_GetRecursive ==
    ret.op = "get_recursive" =>
        LET p == ret.arg.tid.id
            chain == AliasChain(p, Len(held) + 1)
        IN  /\ ret.res # Some(Diverges)
            /\ ret.res = None <=> p \notin TypeArguments_keys(held)
            /\ ret.res # None =>
                   \E i \in 1 .. Len(chain) :
                       /\ ret.res = Some(chain[i])
                       /\ EndsChain(chain[i])
                       /\ \A j \in 1 .. i - 1 : ~EndsChain(chain[j])

\* P1 is bound to P2, P2 to the rigid P3 and P3 to Int: get_recursive(P1)
\* returned Int.
C15_Witness ==
    /\ ret.op = "get_recursive"
    /\ ret.arg = Any(TypeParameter(ParamP1))
    /\ TypeArguments_get(held, ParamP1) = Some(Any(TypeParameter(ParamP2)))
    /\ TypeArguments_get(held, ParamP2)
       = Some(Owned(RigidTypeParameter(ParamP3)))
    /\ ret.res = Some(TypeRef_int)

\* P1 is bound to P2 and P2 to P1: get_recursive(P1) did not return.
C15_WitnessCycle ==
    /\ ret.op = "get_recursive"
    /\ ret.arg = Any(TypeParameter(ParamP1))
    /\ TypeArguments_get(held, ParamP1) = Some(Any(TypeParameter(ParamP2)))
    /\ TypeArguments_get(held, ParamP2) = Some(Any(TypeParameter(ParamP1)))
    /\ ret.res = Some(Diverges)

-----------------------------------------------------------------------------
(* Lookup and visibility: methods are looked up on types, and symbols and
   fields are tested for their visibility to a module. *)

Class(id) == TypeId("Class", id, 0)
Trait(id) == TypeId("Trait", id, 0)
Closure(id) == TypeId("Closure", id, 0)

\* enum MethodKind
MethodKind ==
    {"Async", "AsyncMutable", "Static", "Constructor", "Instance", "Moving",
     "Mutable", "Destructor", "Extern"}

\* Method::alloc: the record of the method.
Method_new(module, name, visibility, kind) ==
    [module |-> module, name |-> name, visibility |-> visibility,
     kind |-> kind]

\* Field::alloc: the record of the field.
Field_new(name, visibility, module) ==
    [name |-> name, visibility |-> visibility, module |-> module]

\* Constant::alloc: the record of the constant.
Constant_new(module, name, visibility) ==
    [module |-> module, name |-> name, visibility |-> visibility]

ModuleId_get(id) == modules[id + 1]
MethodId_get(id) == methods[id + 1]
FieldId_get(id) == fields[id + 1]
ConstantId_get(id) == constants[id + 1]

\* ModuleId::name
ModuleId_name(id) == ModuleId_get(id).name

\* HashMap::insert and HashMap::get as an Option
HashMap_insert(map, key, val) ==
    {e \in map : e[1] # key} \cup {<<key, val>>}
HashMap_find(map, key) ==
    IF HashMap_contains(map, key) THEN Some(HashMap_get(map, key)) ELSE None

\* has_same_root_namespace without the test that the other module is a root
\* module: test_ is stripped from the first segment of any module.
has_same_root_namespace_any_depth(self, other) ==
    LET ours == ModuleId_name(self)
        theirs == ModuleId_name(other)
        stripped == strip_prefix(ModuleName_head(theirs), "test_")
    IN  IF ModuleName_head(ours) = ModuleName_head(theirs)
        THEN TRUE
        ELSE IF stripped = None
        THEN FALSE
        ELSE ModuleName_head(ours) = stripped[1]

\* ModuleId::has_same_root_namespace
has_same_root_namespace(self, other) ==
    LET ours == ModuleId_name(self)
        theirs == ModuleId_name(other)
        stripped == strip_prefix(ModuleName_as_str(theirs), "test_")
    IN  IF ModuleName_head(ours) = ModuleName_head(theirs)
        THEN TRUE
        ELSE IF ~ModuleName_is_root(theirs)
        THEN FALSE
        ELSE IF stripped = None
        THEN FALSE
        ELSE ModuleName_head(ours) = stripped[1]

\* enum Symbol
Symbol(kind, id) == [kind |-> kind, id |-> id]

\* Symbol::is_public
Symbol_is_public(self) ==
    CASE self.kind = "Method" -> MethodId_get(self.id).visibility = "Public"
      [] self.kind = "Class" -> ClassId_get(self.id).visibility = "Public"
      [] self.kind = "Trait" -> TraitId_get(self.id).visibility = "Public"
      [] self.kind = "Constant" ->
         ConstantId_get(self.id).visibility = "Public"
      [] OTHER -> TRUE

\* Symbol::is_visible_to
Symbol_is_visible_to(self, module) ==
    IF Symbol_is_public(self)
    THEN TRUE
    ELSE CASE self.kind = "Method" ->
              has_same_root_namespace(MethodId_get(self.id).module, module)
           [] self.kind = "Class" ->
              has_same_root_namespace(ClassId_get(self.id).module, module)
           [] self.kind = "Trait" ->
              has_same_root_namespace(TraitId_get(self.id).module, module)
           [] self.kind = "Constant" ->
              has_same_root_namespace(ConstantId_get(self.id).module, module)
           [] OTHER -> TRUE

\* FieldId::is_visible_to
FieldId_is_visible_to(self, module) ==
    CASE FieldId_get(self).visibility = "Public" -> TRUE
      [] FieldId_get(self).visibility = "Private" ->
         has_same_root_namespace(FieldId_get(self).module, module)
      [] FieldId_get(self).visibility = "TypePrivate" -> FALSE

\* enum MethodLookup
MethodLookup_Ok(id) == [tag |-> "Ok", id |-> id]
MethodLookup_Private == [tag |-> "Private", id |-> 0]
MethodLookup_InstanceOnStatic == [tag |-> "InstanceOnStatic", id |-> 0]
MethodLookup_StaticOnInstance == [tag |-> "StaticOnInstance", id |-> 0]
MethodLookup_None == [tag |-> "None", id |-> 0]

\* MethodKind::is_static
MethodKind_is_static(kind) == kind \in {"Static", "Constructor"}

\* ClassId::method
ClassId_method(self, name) == HashMap_find(ClassId_get(self).methods, name)

RECURSIVE TraitId_method(_, _)
RECURSIVE required_traits_method(_, _)

\* The loop of TraitId::method and of TypeParameterId::method over trait
\* instances: the method of the first that has one.
required_traits_method(instances, name) ==
    IF instances = <<>>
    THEN None
    ELSE LET id == TraitId_method(Head(instances).id, name)
         IN  IF id # None
             THEN id
             ELSE required_traits_method(Tail(instances), name)

\* TraitId::method looking in the required traits before the methods of the
\* trait itself.
TraitId_method_required_first(self, name) ==
    LET typ == TraitId_get(self)
        required == required_traits_method(typ.required_traits, name)
    IN  IF required # None
        THEN required
        ELSE IF HashMap_contains(typ.default_methods, name)
        THEN HashMap_find(typ.default_methods, name)
        ELSE HashMap_find(typ.required_methods, name)

\* TraitId::method
TraitId_method(self, name) ==
    LET typ == TraitId_get(self)
    IN  IF HashMap_contains(typ.default_methods, name)
        THEN HashMap_find(typ.default_methods, name)
        ELSE IF HashMap_contains(typ.required_methods, name)
        THEN HashMap_find(typ.required_methods, name)
        ELSE required_traits_method(typ.required_traits, name)

\* TypeParameterId::method
TypeParameterId_method(self, name) ==
    required_traits_method(TypeParameterId_get(self).requirements, name)

\* ModuleId::method and ModuleId::extern_method
ModuleId_method(self, name) == ClassId_method(ModuleId_get(self).class, name)
ModuleId_extern_method(self, name) ==
    HashMap_find(ModuleId_get(self).extern_methods, name)

\* TypeId::method
TypeId_method(self, name) ==
    CASE self.k \in {"Class", "ClassInstance"} -> ClassId_method(self.id, name)
      [] self.k \in {"Trait", "TraitInstance"} -> TraitId_method(self.id, name)
      [] self.k = "Module" -> ModuleId_method(self.id, name)
      [] self.k \in {"TypeParameter", "RigidTypeParameter"} ->
         TypeParameterId_method(self.id, name)
      [] OTHER -> None

\* TypeId::can_call
can_call(self, method, module, allow_type_private) ==
    LET m == MethodId_get(method)
    IN  IF m.kind = "Destructor"
        THEN FALSE
        ELSE CASE m.visibility = "Public" -> TRUE
               [] m.visibility = "Private" ->
                  has_same_root_namespace(m.module, module)
               [] m.visibility = "TypePrivate" -> allow_type_private

\* TypeId::lookup_method
lookup_method(self, name, module, allow_type_private) ==
    LET found == TypeId_method(self, name)
        is_ins == self.k \notin {"Class", "Trait", "Module"}
    IN  IF found # None
        THEN LET id == found[1]
                 kind == MethodId_get(id).kind
             IN  IF is_ins /\ MethodKind_is_static(kind)
                 THEN MethodLookup_StaticOnInstance
                 ELSE IF ~is_ins /\ ~MethodKind_is_static(kind)
                 THEN MethodLookup_InstanceOnStatic
                 ELSE IF can_call(self, id, module, allow_type_private)
                 THEN MethodLookup_Ok(id)
                 ELSE MethodLookup_Private
        ELSE IF self.k = "Module"
        THEN LET extern == ModuleId_extern_method(self.id, name)
             IN  IF extern = None
                 THEN MethodLookup_None
                 ELSE MethodLookup_Ok(extern[1])
        ELSE MethodLookup_None

\* The program looked at declares, in module md and with visibility v, the
\* class Thing, the trait ToString, a constant, a field and one method foo of
\* kind k. Trait C requires B and B requires A; the type parameter A requires
\* C. The method is (slot) a method of the class Thing, a default method of
\* the trait A, a method of the module md or an extern method of md.
DeclaringModules == {FooModuleId, BlaModuleId, TestBlaModuleId}
DeclaredKinds == {"Instance", "Static", "Destructor", "Extern"}
MethodSlots == {"class", "trait", "module", "extern"}
MethodNames == {"foo", "bar"}

DeclaredWithMethod(md, v, slot) ==
    /\ classes =
           [c \in 1 .. Len(DeclaredClasses) |->
               IF c = ThingId + 1
               THEN [DeclaredClasses[c] EXCEPT
                        !.visibility = v,
                        !.module = md,
                        !.methods = IF slot = "class"
                                    THEN HashMap_insert({}, "foo", 0)
                                    ELSE {}]
               ELSE IF c = ModuleClassId(md) + 1 /\ slot = "module"
               THEN [DeclaredClasses[c] EXCEPT
                        !.methods = HashMap_insert({}, "foo", 0)]
               ELSE DeclaredClasses[c]]
    /\ traits =
           [DeclaredTraits EXCEPT
               ![ToStringId + 1].visibility = v,
               ![ToStringId + 1].module = md,
               ![TraitAId + 1].default_methods =
                   IF slot = "trait" THEN HashMap_insert({}, "foo", 0) ELSE {},
               ![TraitBId + 1].required_traits =
                   <<TraitInstance_new(TraitAId)>>,
               ![TraitCId + 1].required_traits =
                   <<TraitInstance_new(TraitBId)>>]
    /\ type_parameters =
           [DeclaredTypeParameters EXCEPT
               ![ParamA + 1].requirements = <<TraitInstance_new(TraitCId)>>]
    /\ modules =
           [DeclaredModules EXCEPT
               ![md + 1].extern_methods =
                   IF slot = "extern" THEN HashMap_insert({}, "foo", 0) ELSE {}]

\* The arguments of a query: a name, the module that asks and
\* allow_type_private.
Query(name, module, allow_type_private) ==
    [name |-> name, module |-> module,
     allow_type_private |-> allow_type_private]

\* A call the caller is about to make: the receiver and the arguments.
Input(self, arg) == [self |-> self, arg |-> arg]

\* The symbols tested: the method, the class Thing, the trait ToString, the
\* constant, the module md and the type parameter A; Field is the field.
Symbols(md) ==
    {Symbol("Method", 0), Symbol("Class", ThingId),
     Symbol("Trait", ToStringId), Symbol("Constant", 0),
     Symbol("Module", md), Symbol("TypeParameter", ParamA),
     Symbol("Field", 0)}

\* The receivers of the lookups.
Receivers(md) ==
    {Class(ThingId), ClassInstance_new(ThingId), Trait(TraitCId),
     TraitInstance_new(TraitCId), Module(md), TypeParameter(ParamA),
     RigidTypeParameter(ParamA), Closure(0)}

\* The calls made: tests of visibility and lookups.
Inputs(md) ==
    {Input(symbol, Query("", module, FALSE)) :
        symbol \in Symbols(md),
        module \in 0 .. Len(DeclaredModules) - 1}
    \cup {Input(receiver, Query(name, module, allow_type_private)) :
             receiver \in Receivers(md), name \in MethodNames,
             module \in 0 .. Len(DeclaredModules) - 1,
             allow_type_private \in BOOLEAN}

InitLookup ==
    /\ \E md \in DeclaringModules, v \in Visibility, k \in DeclaredKinds,
          slot \in MethodSlots :
           /\ DeclaredWithMethod(md, v, slot)
           /\ methods = <<Method_new(md, "foo", v, k)>>
           /\ fields = <<Field_new("a", v, md)>>
           /\ constants = <<Constant_new(md, "K", v)>>
           /\ held \in Inputs(md)
    /\ module_mapping = DeclaredModuleMapping
    /\ type_placeholders = <<>>
    /\ type_arguments = <<>>
    /\ closures = <<>>
    /\ variables = <<>>
    /\ constructors = <<>>
    /\ cache = {}
    /\ mapping = {}
    /\ ret = NoCall

\* symbol.is_visible_to(db, module)
SymbolIsVisibleTo ==
    /\ "kind" \in DOMAIN held.self
    /\ held.self.kind # "Field"
    /\ ret' = Call("Symbol::is_visible_to", held.self, held.arg,
                   <<Symbol_is_visible_to(held.self, held.arg.module)>>)
    /\ UNCHANGED <<declarations, type_placeholders, type_arguments,
                   interned, held>>

\* field.is_visible_to(db, module)
FieldIsVisibleTo ==
    /\ "kind" \in DOMAIN held.self
    /\ held.self.kind = "Field"
    /\ ret' = Call("FieldId::is_visible_to", held.self, held.arg,
                   <<FieldId_is_visible_to(held.self.id, held.arg.module)>>)
    /\ UNCHANGED <<declarations, type_placeholders, type_arguments,
                   interned, held>>

\* receiver.lookup_method(db, name, module, allow_type_private)
LookupMethod ==
    /\ "k" \in DOMAIN held.self
    /\ ret' = Call("lookup_method", held.self, held.arg,
                   <<lookup_method(held.self, held.arg.name, held.arg.module,
                                   held.arg.allow_type_private)>>)
    /\ UNCHANGED <<declarations, type_placeholders, type_arguments,
                   interned, held>>

NextLookup ==
    \/ SymbolIsVisibleTo
    \/ FieldIsVisibleTo
    \/ LookupMethod

SpecLookup == InitLookup /\ [][NextLookup]_vars

-----------------------------------------------------------------------------
(* Properties of visibility. *)

\* The module that declares the symbol of the last call.
SymbolModule ==
    CASE ret.self.kind = "Method" -> methods[ret.self.id + 1].module
      [] ret.self.kind = "Class" -> classes[ret.self.id + 1].module
      [] ret.self.kind = "Trait" -> traits[ret.self.id + 1].module
      [] ret.self.kind = "Constant" -> constants[ret.self.id + 1].module
      [] ret.self.kind = "Field" -> fields[ret.self.id + 1].module

\* The visibility of the symbol of the last call.
SymbolVisibility ==
    CASE ret.self.kind = "Method" -> methods[ret.self.id + 1].visibility
      [] ret.self.kind = "Class" -> classes[ret.self.id + 1].visibility
      [] ret.self.kind = "Trait" -> traits[ret.self.id + 1].visibility
      [] ret.self.kind = "Constant" -> constants[ret.self.id + 1].visibility
      [] ret.self.kind = "Field" -> fields[ret.self.id + 1].visibility

\* Module n is a root module whose name is test_ followed by the first
\* segment of the name of module m.
TestModuleOf(m, n) ==
    /\ Len(modules[n + 1].name) = 1
    /\ modules[n + 1].name[1] = <<"test_">> \o modules[m + 1].name[1]

\* C16: a Private symbol of module M is visible to module N exactly when M
\* and N have the same first name segment or N is the root module named
\* test_ followed by the first segment of M; so a Private symbol of test_bla
\* is not visible to bla; a Public symbol is visible to every module.
C16_RootNamespace ==
    (/\ ret.op = "Symbol::is_visible_to"
     /\ ret.self.kind \in {"Method", "Class", "Trait", "Constant"})
    => /\ SymbolVisibility = "Private" =>
              (ret.res[1] <=>
                  \/ modules[SymbolModule + 1].name[1]
                     = modules[ret.arg.module + 1].name[1]
                  \/ TestModuleOf(SymbolModule, ret.arg.module))
       /\ (/\ SymbolVisibility = "Private"
           /\ SymbolModule = TestBlaModuleId
           /\ ret.arg.module = BlaModuleId) => ~ret.res[1]
       /\ SymbolVisibility = "Public" => ret.res[1]

\* A Private method of bla was found visible to test_bla.
C16_Witness ==
    /\ ret.op = "Symbol::is_visible_to"
    /\ ret.self = Symbol("Method", 0)
    /\ methods[1].visibility = "Private"
    /\ methods[1].module = BlaModuleId
    /\ ret.arg.module = TestBlaModuleId
    /\ ret.res = <<TRUE>>

\* A Private class of test_bla was found not visible to bla.
C16_WitnessOneWay ==
    /\ ret.op = "Symbol::is_visible_to"
    /\ ret.self = Symbol("Class", ThingId)
    /\ classes[ThingId + 1].visibility = "Private"
    /\ classes[ThingId + 1].module = TestBlaModuleId
    /\ ret.arg.module = BlaModuleId
    /\ ret.res = <<FALSE>>

-----------------------------------------------------------------------------
(* Method resolution: the class Thing implements the trait ToString, the
   trait C requires B, B requires A and ToString, and the type parameter A
   requires C and ToString. Seven methods foo are allocated; each one is
   registered or not. *)

ThingFoo == 0       \* foo, a method of the class Thing
ToStringFoo == 1    \* foo, a default method of ToString
CDefaultFoo == 2    \* foo, a default method of C
CRequiredFoo == 3   \* foo, a required method of C
BDefaultFoo == 4    \* foo, a default method of B
ARequiredFoo == 5   \* foo, a required method of A
ModuleFoo == 6      \* foo, a method of the module std.foo

DeclaredMethods ==
    [id \in 1 .. 7 |-> Method_new(FooModuleId, "foo", "Public", "Instance")]

\* The methods of a table: foo, if method id is among the registered ones.
Registered(registered, id) ==
    IF id \in registered THEN HashMap_insert({}, "foo", id) ELSE {}

\* ClassId::add_method, ModuleId::add_method, TraitId::add_default_method,
\* TraitId::add_required_method, ClassId::add_trait_implementation,
\* TraitId::add_required_trait and TypeParameterId::add_requirements made
\* the declarations.
DeclaredWithMethods(registered) ==
    /\ classes =
           [DeclaredClasses EXCEPT
               ![ThingId + 1].methods = Registered(registered, ThingFoo),
               ![ThingId + 1].implemented_traits =
                   {<<ToStringId, TraitInstance_new(ToStringId)>>},
               ![ModuleClassId(FooModuleId) + 1].methods =
                   Registered(registered, ModuleFoo)]
    /\ traits =
           [DeclaredTraits EXCEPT
               ![ToStringId + 1].default_methods =
                   Registered(registered, ToStringFoo),
               ![TraitAId + 1].required_methods =
                   Registered(registered, ARequiredFoo),
               ![TraitBId + 1].default_methods =
                   Registered(registered, BDefaultFoo),
               ![TraitBId + 1].required_traits =
                   <<TraitInstance_new(TraitAId),
                     TraitInstance_new(ToStringId)>>,
               ![TraitCId + 1].default_methods =
                   Registered(registered, CDefaultFoo),
               ![TraitCId + 1].required_methods =
                   Registered(registered, CRequiredFoo),
               ![TraitCId + 1].required_traits =
                   <<TraitInstance_new(TraitBId)>>]
    /\ type_parameters =
           [DeclaredTypeParameters EXCEPT
               ![ParamA + 1].requirements =
                   <<TraitInstance_new(TraitCId),
                     TraitInstance_new(ToStringId)>>]

\* The receivers a method is looked up on.
ResolutionReceivers ==
    {Class(ThingId), ClassInstance_new(ThingId), Module(FooModuleId),
     Trait(TraitCId), TraitInstance_new(TraitCId), Trait(TraitBId),
     TraitInstance_new(TraitAId), Trait(ToStringId), TypeParameter(ParamA),
     RigidTypeParameter(ParamA), Closure(0)}

InitResolution ==
    /\ \E registered \in SUBSET (0 .. 6) : DeclaredWithMethods(registered)
    /\ methods = DeclaredMethods
    /\ modules = DeclaredModules
    /\ module_mapping = DeclaredModuleMapping
    /\ held \in {Input(receiver, Query(name, FooModuleId, FALSE)) :
                    receiver \in ResolutionReceivers, name \in MethodNames}
    /\ fields = <<>>
    /\ constants = <<>>
    /\ type_placeholders = <<>>
    /\ type_arguments = <<>>
    /\ closures = <<>>
    /\ variables = <<>>
    /\ constructors = <<>>
    /\ cache = {}
    /\ mapping = {}
    /\ ret = NoCall

\* receiver.method(db, name)
MethodOf ==
    /\ ret' = Call("method", held.self, held.arg,
                   TypeId_method(held.self, held.arg.name))
    /\ UNCHANGED <<declarations, type_placeholders, type_arguments,
                   interned, held>>

\* receiver.lookup_method(db, name, module, false)
LookupResolved ==
    /\ ret' = Call("lookup_method", held.self, held.arg,
                   <<lookup_method(held.self, held.arg.name, held.arg.module,
                                   held.arg.allow_type_private)>>)
    /\ UNCHANGED <<declarations, type_placeholders, type_arguments,
                   interned, held>>

NextResolution ==
    \/ MethodOf
    \/ LookupResolved

SpecResolution == InitResolution /\ [][NextResolution]_vars

-----------------------------------------------------------------------------
(* Properties of method resolution. *)

\* The traits searched from the traits of instances, in the order of the
\* search: each trait, then the traits it requires.
RECURSIVE Searched(_)
Searched(instances) ==
    IF instances = <<>>
    THEN <<>>
    ELSE <<Head(instances).id>>
         \o Searched(traits[Head(instances).id + 1].required_traits)
         \o Searched(Tail(instances))

\* The method named name that trait t declares itself: its default method,
\* or else its required method.
OwnMethod(t, name) ==
    IF \E e \in traits[t + 1].default_methods : e[1] = name
    THEN {e[2] : e \in {d \in traits[t + 1].default_methods : d[1] = name}}
    ELSE {e[2] : e \in {d \in traits[t + 1].required_methods : d[1] = name}}

\* The method of the first of the traits searched that declares name.
FirstOwnMethod(searched, name) ==
    LET declaring == {i \in 1 .. Len(searched) :
                         OwnMethod(searched[i], name) # {}}
    IN  IF declaring = {}
        THEN {}
        ELSE OwnMethod(
                 searched[CHOOSE i \in declaring :
                              \A j \in declaring : i <= j], name)

\* The method named name in the method table of class c.
ClassMethod(c, name) ==
    {e[2] : e \in {d \in classes[c + 1].methods : d[1] = name}}

\* The traits class c implements.
ImplementedTraits(c) ==
    {e[2] : e \in classes[c + 1].implemented_traits}

\* The default methods named name of the traits class c implements and of
\* the traits these require.
ImplementedDefaults(c, name) ==
    UNION {{e[2] : e \in {d \in traits[t + 1].default_methods : d[1] = name}} :
              t \in UNION {{Searched(<<i>>)[n] :
                               n \in 1 .. Len(Searched(<<i>>))} :
                              i \in ImplementedTraits(c)}}

\* The last call looked a method up on a class or an instance of a class.
OnClass == ret.op = "method" /\ ret.self.k \in {"Class", "ClassInstance"}

\* The last call looked a method up on a trait or an instance of a trait.
OnTrait == ret.op = "method" /\ ret.self.k \in {"Trait", "TraitInstance"}

\* The result of the last call as the set of the methods returned.
Returned == {ret.res[i] : i \in 1 .. Len(ret.res)}

\* C17 (as stated): on a class or class instance the method of the class is
\* returned if there is one, otherwise a default method of that name of a
\* trait the class implements or of a trait such a trait requires; on a
\* trait, the trait's own default or required method before any method of
\* a required trait; None only when none of these declares the name.
C17_Original ==
    /\ OnClass =>
           IF ClassMethod(ret.self.id, ret.arg.name) # {}
           THEN Returned = ClassMethod(ret.self.id, ret.arg.name)
           ELSE /\ Returned \subseteq
                       ImplementedDefaults(ret.self.id, ret.arg.name)
                /\ Returned = {} =>
                       ImplementedDefaults(ret.self.id, ret.arg.name) = {}
    /\ OnTrait =>
           Returned = FirstOwnMethod(
                          Searched(<<TraitInstance_new(ret.self.id)>>),
                          ret.arg.name)

\* C17 (amended): on a class, a class instance or a module the method in the
\* method table of the class is returned, and None if the table has none,
\* whatever the traits the class implements declare; on a trait, the
\* trait's own default method, else its own required method, else the
\* method of the first required trait, searched in order and in depth,
\* that declares one; on a type parameter, the same over its requirements.
C17_MethodResolution ==
    /\ OnClass => Returned = ClassMethod(ret.self.id, ret.arg.name)
    /\ (ret.op = "method" /\ ret.self.k = "Module") =>
           Returned = ClassMethod(modules[ret.self.id + 1].class, ret.arg.name)
    /\ OnTrait =>
           Returned = FirstOwnMethod(
                          Searched(<<TraitInstance_new(ret.self.id)>>),
                          ret.arg.name)
    /\ (/\ ret.op = "method"
        /\ ret.self.k \in {"TypeParameter", "RigidTypeParameter"}) =>
           Returned = FirstOwnMethod(
                          Searched(type_parameters[ret.self.id + 1]
                                       .requirements),
                          ret.arg.name)

\* foo was looked up on C, which declares it as a required method only,
\* while B, which C requires, has a default method foo: the required method
\* of C was returned.
C17_Witness ==
    /\ ret.op = "method"
    /\ ret.self = Trait(TraitCId)
    /\ ret.arg.name = "foo"
    /\ traits[TraitCId + 1].default_methods = {}
    /\ traits[TraitBId + 1].default_methods # {}
    /\ ret.res = Some(CRequiredFoo)

\* foo was looked up on the class Thing, which has no method foo, while
\* ToString, which Thing implements, has a default method foo: None.
C17_WitnessClass ==
    /\ OnClass
    /\ ret.arg.name = "foo"
    /\ classes[ThingId + 1].methods = {}
    /\ traits[ToStringId + 1].default_methods # {}
    /\ ret.res = None

-----------------------------------------------------------------------------
(* Properties of lookup_method. *)

\* The last call was a lookup.
Looked == ret.op = "lookup_method"

\* The method the lookup of the last call found, if any: the method of the
\* receiver, or else the extern method of a receiver that is a module.
FoundMethod ==
    IF TypeId_method(ret.self, ret.arg.name) # None
    THEN TypeId_method(ret.self, ret.arg.name)
    ELSE IF ret.self.k = "Module"
    THEN ModuleId_extern_method(ret.self.id, ret.arg.name)
    ELSE None

\* The method found is an extern method of the module looked in.
FoundExtern ==
    /\ TypeId_method(ret.self, ret.arg.name) = None
    /\ FoundMethod # None

\* The kind of the method found matches the receiver: a static method on a
\* class, trait or module, any other method on an instance.
KindMatches ==
    MethodKind_is_static(methods[FoundMethod[1] + 1].kind)
    <=> ret.self.k \in {"Class", "Trait", "Module"}

\* The module that asks is outside the root namespace of the method found.
Outsider ==
    LET ours == modules[methods[FoundMethod[1] + 1].module + 1].name
        theirs == modules[ret.arg.module + 1].name
    IN  /\ ours[1] # theirs[1]
        /\ ~(Len(theirs) = 1 /\ theirs[1] = <<"test_">> \o ours[1])

\* C18 (as stated): a lookup that finds a Private method whose kind matches
\* the receiver, or a Private extern method of a module, returns Private
\* when the module that asks is outside the root namespace of the method's
\* module; the lookup of a name that does not exist returns None.
C18_PrivateLookup ==
    Looked =>
        /\ (/\ FoundMethod # None
            /\ methods[FoundMethod[1] + 1].visibility = "Private"
            /\ KindMatches \/ FoundExtern
            /\ Outsider)
           => ret.res[1] = MethodLookup_Private
        /\ FoundMethod = None => ret.res[1] = MethodLookup_None

\* The Private instance method foo of the class Thing, declared in std.foo,
\* was looked up for the module bla on an instance of Thing: Private.
C18_Witness ==
    /\ Looked
    /\ ret.self = ClassInstance_new(ThingId)
    /\ ret.arg.name = "foo"
    /\ ret.arg.module = BlaModuleId
    /\ methods[1] = Method_new(FooModuleId, "foo", "Private", "Instance")
    /\ ret.res[1] = MethodLookup_Private

\* The Private extern method foo of the module std.foo was looked up for
\* the module bla on the module std.foo: Ok.
C18_WitnessExtern ==
    /\ Looked
    /\ ret.self = Module(FooModuleId)
    /\ ret.arg.name = "foo"
    /\ ret.arg.module = BlaModuleId
    /\ methods[1] = Method_new(FooModuleId, "foo", "Private", "Extern")
    /\ FoundExtern
    /\ ret.res[1] = MethodLookup_Ok(0)

\* C19 (as stated): a TypePrivate method or field is not visible to and not
\* callable from any module other than the one that declares it:
\* Symbol::is_visible_to and FieldId::is_visible_to are false for every
\* other module, and lookup_method for another module does not return Ok.
C19_TypePrivate ==
    /\ (/\ ret.op \in {"Symbol::is_visible_to", "FieldId::is_visible_to"}
        /\ ret.self.kind \in {"Method", "Field"}
        /\ SymbolVisibility = "TypePrivate"
        /\ ret.arg.module # SymbolModule)
       => ret.res = <<FALSE>>
    /\ (/\ Looked
        /\ FoundMethod # None
        /\ methods[FoundMethod[1] + 1].visibility = "TypePrivate"
        /\ ret.arg.module # methods[FoundMethod[1] + 1].module)
       => ret.res[1].tag # "Ok"

\* The TypePrivate method foo of std.foo was found visible to std.bar.
C19_Witness ==
    /\ ret.op = "Symbol::is_visible_to"
    /\ ret.self = Symbol("Method", 0)
    /\ methods[1].visibility = "TypePrivate"
    /\ methods[1].module = FooModuleId
    /\ ret.arg.module = BarModuleId
    /\ ret.res = <<TRUE>>

\* The TypePrivate instance method foo of the class Thing, declared in
\* std.foo, was looked up for bla with allow_type_private: Ok.
C19_WitnessLookup ==
    /\ Looked
    /\ ret.self = ClassInstance_new(ThingId)
    /\ ret.arg = Query("foo", BlaModuleId, TRUE)
    /\ methods[1] = Method_new(FooModuleId, "foo", "TypePrivate", "Instance")
    /\ ret.res[1] = MethodLookup_Ok(0)

\* The TypePrivate field of std.foo was found not visible to std.foo itself.
C19_WitnessField ==
    /\ ret.op = "FieldId::is_visible_to"
    /\ fields[1].visibility = "TypePrivate"
    /\ fields[1].module = FooModuleId
    /\ ret.arg.module = FooModuleId
    /\ ret.res = <<FALSE>>

\* ---------------------------------------------------------------------------
\* The tables of the database as append-only arenas
\* ---------------------------------------------------------------------------

\* The most records allocated on top of the ones of Database::new.
MaxRecords == 3

\* Variable::alloc: the record of the variable.
Variable_new(name, mutable) == [name |-> name, mutable |-> mutable]

\* Closure::new
Closure_new(moving) == [moving |-> moving, captured |-> {}]

\* Constructor::alloc: the record of the constructor.
Constructor_new(id, name) == [id |-> id, name |-> name, arguments |-> <<>>]

\* The tables that hand out IDs, by name.
Tables ==
    [modules |-> modules, classes |-> classes, traits |-> traits,
     methods |-> methods, fields |-> fields,
     type_parameters |-> type_parameters,
     type_placeholders |-> type_placeholders, closures |-> closures,
     variables |-> variables, constants |-> constants,
     constructors |-> constructors]

\* The number of records allocated since Database::new.
Allocated ==
    Len(modules) + (Len(classes) - FIRST_USER_CLASS_ID) + Len(traits)
    + Len(methods) + Len(fields) + Len(type_parameters)
    + Len(type_placeholders) + Len(closures) + Len(variables)
    + Len(constants) + Len(constructors)

\* Class::add with the new class put in front of the table.
Class_add_front(class) == <<class>> \o classes

\* Class::add: the table of classes after the push.
Class_add(class) == Append(classes, class)

\* Class::alloc
Class_alloc(name, kind, visibility, module) ==
    /\ Allocated < MaxRecords
    /\ classes' = Class_add(Class_new(name, kind, visibility, module))
    /\ ret' = Call("Class::alloc", Unknown, Unknown, <<Len(classes)>>)
    /\ UNCHANGED <<traits, type_parameters, type_placeholders, type_arguments,
                   modules, module_mapping, methods, fields, constants,
                   closures, variables, constructors, interned, held>>

\* ClassId::clone_for_specialization
ClassId_clone_for_specialization(self) ==
    /\ Allocated < MaxRecords
    /\ self < Len(classes)
    /\ LET src == ClassId_get(self)
           new == [Class_new(src.name, src.kind, src.visibility, src.module)
                       EXCEPT !.storage = src.storage]
       IN  classes' = Class_add(new)
    /\ ret' = Call("ClassId::clone_for_specialization", self, Unknown,
                   <<Len(classes)>>)
    /\ UNCHANGED <<traits, type_parameters, type_placeholders, type_arguments,
                   modules, module_mapping, methods, fields, constants,
                   closures, variables, constructors, interned, held>>

\* Module::alloc: the module and its class.
Module_alloc(name) ==
    /\ Allocated + 1 < MaxRecords
    /\ LET id == Len(modules)
           class_id == Len(classes)
       IN  /\ classes' = Class_add(Class_new(ModuleName_as_str(name), "Module",
                                             "Private", id))
           /\ module_mapping' =
                  HashMap_insert(module_mapping, ModuleName_as_str(name), id)
           /\ modules' = Append(modules, Module_new(name, class_id))
           /\ ret' = Call("Module::alloc", Unknown, Unknown, <<id>>)
    /\ UNCHANGED <<traits, type_parameters, type_placeholders, type_arguments,
                   methods, fields, constants, closures, variables,
                   constructors, interned, held>>

\* Trait::alloc
Trait_alloc(visibility, module) ==
    /\ Allocated < MaxRecords
    /\ traits' = Append(traits, Trait_new(visibility, module))
    /\ ret' = Call("Trait::alloc", Unknown, Unknown, <<Len(traits)>>)
    /\ UNCHANGED <<classes, type_parameters, type_placeholders, type_arguments,
                   modules, module_mapping, methods, fields, constants,
                   closures, variables, constructors, interned, held>>

\* Method::alloc
Method_alloc(module, name, visibility, kind) ==
    /\ Allocated < MaxRecords
    /\ methods' = Append(methods, Method_new(module, name, visibility, kind))
    /\ ret' = Call("Method::alloc", Unknown, Unknown, <<Len(methods)>>)
    /\ UNCHANGED <<classes, traits, type_parameters, type_placeholders,
                   type_arguments, modules, module_mapping, fields, constants,
                   closures, variables, constructors, interned, held>>

\* MethodId::copy_method
MethodId_copy_method(self, module) ==
    /\ Allocated < MaxRecords
    /\ self < Len(methods)
    /\ methods' =
           Append(methods, [MethodId_get(self) EXCEPT !.module = module])
    /\ ret' = Call("MethodId::copy_method", self, module, <<Len(methods)>>)
    /\ UNCHANGED <<classes, traits, type_parameters, type_placeholders,
                   type_arguments, modules, module_mapping, fields, constants,
                   closures, variables, constructors, interned, held>>

\* Field::alloc
Field_alloc(name, visibility, module) ==
    /\ Allocated < MaxRecords
    /\ fields' = Append(fields, Field_new(name, visibility, module))
    /\ ret' = Call("Field::alloc", Unknown, Unknown, <<Len(fields)>>)
    /\ UNCHANGED <<classes, traits, type_parameters, type_placeholders,
                   type_arguments, modules, module_mapping, methods, constants,
                   closures, variables, constructors, interned, held>>

\* TypeParameter::alloc
TypeParameter_alloc ==
    /\ Allocated < MaxRecords
    /\ type_parameters' = Append(type_parameters, TypeParameter_new)
    /\ ret' = Call("TypeParameter::alloc", Unknown, Unknown,
                   <<Len(type_parameters)>>)
    /\ UNCHANGED <<classes, traits, type_placeholders, type_arguments, modules,
                   module_mapping, methods, fields, constants, closures,
                   variables, constructors, interned, held>>

\* Closure::alloc
Closure_alloc(moving) ==
    /\ Allocated < MaxRecords
    /\ closures' = Append(closures, Closure_new(moving))
    /\ ret' = Call("Closure::alloc", Unknown, Unknown, <<Len(closures)>>)
    /\ UNCHANGED <<classes, traits, type_parameters, type_placeholders,
                   type_arguments, modules, module_mapping, methods, fields,
                   constants, variables, constructors, interned, held>>

\* Variable::alloc
Variable_alloc(name, mutable) ==
    /\ Allocated < MaxRecords
    /\ variables' = Append(variables, Variable_new(name, mutable))
    /\ ret' = Call("Variable::alloc", Unknown, Unknown, <<Len(variables)>>)
    /\ UNCHANGED <<classes, traits, type_parameters, type_placeholders,
                   type_arguments, modules, module_mapping, methods, fields,
                   constants, closures, constructors, interned, held>>

\* Constant::alloc: the constant, and its entry in the module's constants and
\* symbols.
Constant_alloc(module, name, visibility) ==
    /\ Allocated < MaxRecords
    /\ module < Len(modules)
    /\ LET const_id == Len(constants)
           old == ModuleId_get(module)
       IN  /\ modules' =
                  [modules EXCEPT ![module + 1] =
                      [old EXCEPT
                          !.constants = Append(old.constants, const_id),
                          !.symbols =
                              HashMap_insert(old.symbols, name,
                                             Symbol("Constant", const_id))]]
           /\ constants' =
                  Append(constants, Constant_new(module, name, visibility))
           /\ ret' = Call("Constant::alloc", Unknown, Unknown, <<const_id>>)
    /\ UNCHANGED <<classes, traits, type_parameters, type_placeholders,
                   type_arguments, module_mapping, methods, fields, closures,
                   variables, constructors, interned, held>>

\* Constructor::alloc
Constructor_alloc(id, name) ==
    /\ Allocated < MaxRecords
    /\ constructors' = Append(constructors, Constructor_new(id, name))
    /\ ret' = Call("Constructor::alloc", Unknown, Unknown,
                   <<Len(constructors)>>)
    /\ UNCHANGED <<classes, traits, type_parameters, type_placeholders,
                   type_arguments, modules, module_mapping, methods, fields,
                   constants, closures, variables, interned, held>>

\* Database::compact
Database_compact ==
    /\ type_arguments' = <<>>
    /\ ret' = Call("Database::compact", Unknown, Unknown, <<>>)
    /\ UNCHANGED <<declarations, type_placeholders, interned, held>>

\* Database::new
InitArena ==
    /\ modules = <<>>
    /\ module_mapping = {}
    /\ traits = <<>>
    /\ classes = Database_new_classes
    /\ type_parameters = <<>>
    /\ type_arguments = <<>>
    /\ fields = <<>>
    /\ methods = <<>>
    /\ closures = <<>>
    /\ variables = <<>>
    /\ constants = <<>>
    /\ type_placeholders = <<>>
    /\ constructors = <<>>
    /\ cache = {}
    /\ mapping = {}
    /\ held = <<>>
    /\ ret = NoCall

\* The modules named by the allocations.
ArenaModules == 0 .. 1

\* The classes cloned: a builtin class and the first class allocated later.
ClonedClasses == {INT_ID, FIRST_USER_CLASS_ID}

NextArena ==
    \/ \E n \in {DeclaredModuleNames[BlaModuleId + 1],
                  DeclaredModuleNames[TestBlaModuleId + 1]} : Module_alloc(n)
    \/ \E k \in {"Regular", "Extern"} :
           Class_alloc("Thing", k, "Public", FooModuleId)
    \/ \E c \in ClonedClasses : ClassId_clone_for_specialization(c)
    \/ Trait_alloc("Public", FooModuleId)
    \/ \E k \in {"Instance", "Static"} :
           Method_alloc(FooModuleId, "foo", "Public", k)
    \/ \E m \in ArenaModules : MethodId_copy_method(0, m)
    \/ Field_alloc("a", "Private", FooModuleId)
    \/ TypeParameter_alloc
    \/ (Allocated < MaxRecords /\ TypePlaceholder_alloc)
    \/ Closure_alloc(FALSE)
    \/ \E m \in BOOLEAN : Variable_alloc("a", m)
    \/ \E m \in ArenaModules : Constant_alloc(m, "A", "Public")
    \/ Constructor_alloc(0, "Some")
    \/ ClassInstance_generic(ARRAY_ID, <<>>)
    \/ Database_compact

SpecArena == InitArena /\ [][NextArena]_vars

\* The allocations, and the table each hands an ID of.
Allocations ==
    {"Module::alloc", "Class::alloc", "ClassId::clone_for_specialization",
     "Trait::alloc", "Method::alloc", "MethodId::copy_method", "Field::alloc",
     "TypeParameter::alloc", "alloc", "Closure::alloc", "Variable::alloc",
     "Constant::alloc", "Constructor::alloc"}

AllocTable(op) ==
    CASE op = "Module::alloc" -> "modules"
      [] op \in {"Class::alloc", "ClassId::clone_for_specialization"} ->
         "classes"
      [] op = "Trait::alloc" -> "traits"
      [] op \in {"Method::alloc", "MethodId::copy_method"} -> "methods"
      [] op = "Field::alloc" -> "fields"
      [] op = "TypeParameter::alloc" -> "type_parameters"
      [] op = "alloc" -> "type_placeholders"
      [] op = "Closure::alloc" -> "closures"
      [] op = "Variable::alloc" -> "variables"
      [] op = "Constant::alloc" -> "constants"
      [] op = "Constructor::alloc" -> "constructors"

\* The ID a call of an allocation returned.
ReturnedId(call) ==
    IF call.op = "alloc" THEN call.res[1].pid.id ELSE call.res[1]

\* What tells a record from the others of its table: a module is changed in
\* place when a constant is added to it, and keeps its name and class.
Denoted(table, record) ==
    IF table = "modules"
    THEN [name |-> record.name, class |-> record.class]
    ELSE record

\* No record of the table is removed or moved by the step.
Kept(table) ==
    /\ Len(Tables'[table]) >= Len(Tables[table])
    /\ \A i \in 1 .. Len(Tables[table]) :
           Denoted(table, Tables'[table][i]) = Denoted(table, Tables[table][i])

\* The step is an allocation: its ID is the length its table had, and the
\* table is one record longer.
AllocatedAtEnd ==
    ret'.op \in Allocations =>
        LET table == AllocTable(ret'.op)
        IN  /\ ReturnedId(ret') = Len(Tables[table])
            /\ Len(Tables'[table]) = Len(Tables[table]) + 1

\* The names of the builtin classes, in the order of their IDs.
BuiltinNames ==
    <<"String", "ByteArray", "Int", "Float", "Bool", "Nil", "Tuple1",
      "Tuple2", "Tuple3", "Tuple4", "Tuple5", "Tuple6", "Tuple7", "Tuple8",
      "Array", "CheckedIntResult">>

\* IDs 0 to 15 are the builtin classes.
BuiltinsBound ==
    /\ Len(classes) >= FIRST_USER_CLASS_ID
    /\ Len(BuiltinNames) = FIRST_USER_CLASS_ID
    /\ \A id \in 0 .. FIRST_USER_CLASS_ID - 1 :
           ClassId_get(id).name = BuiltinNames[id + 1]

\* The step allocates a class, for itself, as a clone or for a module: its
\* ID is not one of a builtin class.
UserClassId ==
    /\ ret'.op \in {"Class::alloc", "ClassId::clone_for_specialization"} =>
           ret'.res[1] >= FIRST_USER_CLASS_ID
    /\ ret'.op = "Module::alloc" =>
           /\ modules'[ret'.res[1] + 1].class >= FIRST_USER_CLASS_ID
           /\ modules'[ret'.res[1] + 1].class = Len(classes)

\* C20: every allocation on the module, class, trait, method, field, type
\* parameter, placeholder, closure, variable, constant and constructor
\* tables returns the length its table had and appends one record, no step
\* removes or moves a record of these tables, so that an ID handed out
\* earlier keeps denoting its record; class IDs 0 to 15 stay the builtin
\* classes in the order String, ByteArray, Int, Float, Bool, Nil, Tuple1 to
\* Tuple8, Array, CheckedIntResult, and a class allocated later, for a
\* module or as a clone too, has an ID of FIRST_USER_CLASS_ID or more.
C20_AppendOnly ==
    /\ [][/\ \A table \in DOMAIN Tables : Kept(table)
          /\ AllocatedAtEnd
          /\ UserClassId]_vars
    /\ []BuiltinsBound

\* A constant was allocated in a module allocated before it: the module, its
\* class and the builtin classes are where they were.
C20_Witness ==
    /\ ret.op = "Constant::alloc"
    /\ Len(modules) = 1
    /\ modules[1].constants = <<0>>
    /\ modules[1].class = FIRST_USER_CLASS_ID
    /\ ClassId_get(FIRST_USER_CLASS_ID).kind = "Module"

\* A builtin class was cloned after a class was allocated: the clone is the
\* third class from FIRST_USER_CLASS_ID on.
C20_WitnessClone ==
    /\ ret.op = "ClassId::clone_for_specialization"
    /\ ret.self = INT_ID
    /\ ret.res = <<FIRST_USER_CLASS_ID + 2>>
    /\ ClassId_get(FIRST_USER_CLASS_ID + 2).name = "Int"

-----------------------------------------------------------------------------
(* Compaction: the type arguments are cleared after specialization. *)

\* The instances created with type arguments: Box[Int], Box[String] and
\* Equal[Int].
CompactedArguments ==
    {<<"ClassInstance", BoxId, <<Entry(ParamBoxT, TypeRef_int)>>>>,
     <<"ClassInstance", BoxId, <<Entry(ParamBoxT, TypeRef_string)>>>>,
     <<"TraitInstance", EqualId, <<Entry(ParamEqualT, TypeRef_int)>>>>}

\* ClassInstance::generic and TraitInstance::generic, the instance returned
\* being kept by the caller.
InstanceGeneric(kind, instance_of, arguments) ==
    /\ Len(type_arguments) < MaxTypeArguments
    /\ LET args_id == Len(type_arguments)
           instance == TypeId(kind, instance_of, args_id)
       IN  /\ type_arguments' = Append(type_arguments, arguments)
           /\ held' = [held EXCEPT !.made = @ \cup {instance}]
           /\ ret' = Call("generic", Unknown, Unknown, <<Owned(instance)>>)
    /\ UNCHANGED <<declarations, type_placeholders, interned>>

\* Database::compact, the instances made so far being the ones made before
\* a compaction.
Compact ==
    /\ type_arguments' = <<>>
    /\ held' = [held EXCEPT !.compacted = held.made]
    /\ ret' = Call("Database::compact", Unknown, Unknown, <<>>)
    /\ UNCHANGED <<declarations, type_placeholders, interned>>

\* ClassInstance::type_arguments and TraitInstance::type_arguments of an
\* instance made before.
TypeArgumentsOf(self) ==
    /\ ret' = Call("type_arguments", self, Unknown,
                   Instance_type_arguments(self))
    /\ UNCHANGED <<declarations, type_placeholders, type_arguments, interned,
                   held>>

InitCompact ==
    /\ InitDatabase
    /\ type_placeholders = <<>>
    /\ held = [made |-> {}, compacted |-> {}]

NextCompact ==
    \/ \E a \in CompactedArguments : InstanceGeneric(a[1], a[2], a[3])
    \/ Compact
    \/ \E i \in held.made : TypeArgumentsOf(i)

SpecCompact == InitCompact /\ [][NextCompact]_vars

\* The call read the type arguments of an instance made before a compaction.
ReadCompacted ==
    /\ ret.op = "type_arguments"
    /\ ret.self \in held.compacted

\* C21: after compact() an instance of a class or of a trait made before the
\* compaction never resolves to type arguments again: type_arguments(db) of
\* it is None in every later state, generic instances allocated after the
\* compaction included, and compact() changes no other table.
C21_Compaction ==
    /\ [](/\ \A i \in held.compacted : Instance_type_arguments(i) = None
          /\ ReadCompacted => ret.res = None)
    /\ [][ret'.op = "Database::compact" =>
              UNCHANGED <<declarations, type_placeholders, interned>>]_vars

\* Box[Int] was made, the arguments were compacted and Box[String] was made:
\* the instance of Box[Int] reads the arguments of Box[String].
C21_Witness ==
    /\ ReadCompacted
    /\ ret.self = ClassInstance(BoxId, 0)
    /\ ret.res = Some(<<Entry(ParamBoxT, TypeRef_string)>>)

\* Until an instance is allocated after the compaction, the instances made
\* before it have no type arguments.
C21_WitnessCleared ==
    /\ ReadCompacted
    /\ type_arguments = <<>>
    /\ ret.res = None

-----------------------------------------------------------------------------
(* Capacity: the lengths the allocations are asserted against. *)

\* The lengths compared with u32::MAX are counted from u32::MAX - NearLimit,
\* u32::MAX being beyond the integers of the model checker: a table holding
\* u32::MAX - NearLimit + n records has the length n here.
NearLimit == 3

\* u32::MAX on that scale, and u16::MAX.
u32_MAX == NearLimit
u16_MAX == 2 ^ 16 - 1

\* The maximum number of methods supported.
METHODS_LIMIT == u32_MAX - 1

\* A length cast with `as u16`.
as_u16(n) == n % 2 ^ 16

\* The most records allocated past a bound by the allocations that assert
\* nothing.
MaxExcess == 2

\* assert!(condition): the allocation aborts, it returns nothing and nothing
\* runs after it.
Abort(op) ==
    /\ held' = [held EXCEPT !.aborted = TRUE]
    /\ ret' = Call(op, Unknown, Unknown, None)

\* The allocation returns id, the lengths being the ones of after.
Allocate(op, id, after) ==
    /\ held' = after
    /\ ret' = Call(op, Unknown, id, <<id>>)

\* Method::alloc, on the lengths: also what MethodId::clone_for_specialization
\* does.
Capacity_Method_alloc(op) ==
    /\ ~held.aborted
    /\ IF held.methods < METHODS_LIMIT
       THEN Allocate(op, held.methods, [held EXCEPT !.methods = @ + 1])
       ELSE Abort(op)
    /\ UNCHANGED <<declarations, type_placeholders, type_arguments, interned>>

\* MethodId::copy_method, on the lengths.
Capacity_copy_method ==
    /\ ~held.aborted
    /\ IF held.methods < u32_MAX
       THEN Allocate("MethodId::copy_method", held.methods,
                     [held EXCEPT !.methods = @ + 1])
       ELSE Abort("MethodId::copy_method")
    /\ UNCHANGED <<declarations, type_placeholders, type_arguments, interned>>

\* Class::add, on the lengths.
Capacity_Class_add ==
    /\ ~held.aborted
    /\ IF held.classes < u32_MAX
       THEN Allocate("Class::alloc", held.classes,
                     [held EXCEPT !.classes = @ + 1])
       ELSE Abort("Class::alloc")
    /\ UNCHANGED <<declarations, type_placeholders, type_arguments, interned>>

\* ClassId::new_field with a name the class does not have yet, on the
\* lengths: Field::alloc asserts nothing.
Capacity_new_field ==
    /\ ~held.aborted
    /\ held.fields < u32_MAX + MaxExcess
    /\ held.class_fields < u16_MAX + MaxExcess
    /\ Allocate("ClassId::new_field", held.fields,
                [held EXCEPT !.fields = @ + 1, !.class_fields = @ + 1])
    /\ UNCHANGED <<declarations, type_placeholders, type_arguments, interned>>

\* ClassId::new_constructor with a name the class does not have yet, on the
\* lengths: the id of the constructor in its class is the number of
\* constructors of the class cast to u16, and Constructor::alloc asserts
\* nothing.
Capacity_new_constructor ==
    /\ ~held.aborted
    /\ held.constructors < u32_MAX + MaxExcess
    /\ held.class_constructors < u16_MAX + MaxExcess
    /\ Allocate("ClassId::new_constructor", as_u16(held.class_constructors),
                [held EXCEPT !.constructors = @ + 1,
                             !.class_constructors = @ + 1])
    /\ UNCHANGED <<declarations, type_placeholders, type_arguments, interned>>

\* The lengths the allocations start from: every table within its bound, a
\* few records from it.
InitCapacity ==
    /\ InitDatabase
    /\ type_placeholders = <<>>
    /\ \E m \in 0 .. METHODS_LIMIT - 1, c \in u32_MAX - 1 .. u32_MAX,
          f \in u16_MAX - 1 .. u16_MAX :
           held = [methods |-> m, classes |-> c,
                   fields |-> u32_MAX - 1, constructors |-> u32_MAX - 1,
                   class_fields |-> f, class_constructors |-> f,
                   aborted |-> FALSE]

NextCapacity ==
    \/ Capacity_Method_alloc("Method::alloc")
    \/ Capacity_Method_alloc("MethodId::clone_for_specialization")
    \/ Capacity_copy_method
    \/ Capacity_Class_add
    \/ Capacity_new_field
    \/ Capacity_new_constructor

SpecCapacity == InitCapacity /\ [][NextCapacity]_vars

\* C22: after any sequence of allocations every table is within its bound,
\* u32::MAX records for the global tables, u16::MAX fields and u16::MAX
\* constructors for a class and u32::MAX - 1 methods, whether made by
\* Method::alloc, copy_method or clone_for_specialization: the allocation
\* that would exceed the bound aborts, it returns no ID and wraps no id of
\* a constructor in its class.
C22_Capacity ==
    /\ held.methods <= METHODS_LIMIT
    /\ held.classes <= u32_MAX
    /\ held.fields <= u32_MAX
    /\ held.constructors <= u32_MAX
    /\ held.class_fields <= u16_MAX
    /\ held.class_constructors <= u16_MAX
    /\ ret.op = "ClassId::new_constructor" =>
           ret.res \in {None, Some(held.class_constructors - 1)}

\* copy_method returned the ID u32::MAX - 1: the table has u32::MAX methods.
C22_Witness ==
    /\ ret.op = "MethodId::copy_method"
    /\ ret.res = <<METHODS_LIMIT>>
    /\ held.methods = u32_MAX

\* Method::alloc aborted on a table of u32::MAX - 1 methods.
C22_WitnessAbort ==
    /\ ret.op = "Method::alloc"
    /\ ret.res = None
    /\ held.aborted
    /\ held.methods = METHODS_LIMIT

\* The constructor added to a class of 65536 constructors has the id 0, the
\* id of its first constructor.
C22_WitnessWrap ==
    /\ ret.op = "ClassId::new_constructor"
    /\ ret.res = <<0>>
    /\ held.class_constructors = u16_MAX + 2

-----------------------------------------------------------------------------
(* Access to the placeholders from several threads. *)

\* Two callers of another crate and one thread of this crate.
ExternalCallers == {"external1", "external2"}
Threads == ExternalCallers \cup {"core"}

\* The placeholders the threads assign and read, and the values assigned.
SharedPlaceholders == {0, 1}
SharedValues == {TypeRef_int, TypeRef_string}

\* The reference to the database a call takes: &Database or &mut Database.
\* assign taking a &Database like assign_internal.
assign_access_shared == {"shared", "exclusive"}

\* `db: &mut Database` of TypePlaceholderId::assign
assign_access == {"exclusive"}

\* `db: &Database` of assign_internal and of value: a &mut Database can be
\* reborrowed as a &Database.
assign_internal_access == {"shared", "exclusive"}
value_access == {"shared", "exclusive"}

\* A call in progress in a thread, and no call.
Running(op, self, val) == [op |-> op, self |-> self, val |-> val]
Idle == Running("idle", NoPlaceholderId, Unknown)

\* The borrow rules: any number of &Database, or one &mut Database and no
\* other reference.
CanBorrow(t, access) ==
    /\ held.access[t] = "none"
    /\ \A u \in Threads \ {t} :
           IF access = "exclusive"
           THEN held.access[u] = "none"
           ELSE held.access[u] # "exclusive"

\* The thread takes a reference to the database.
Borrow(t, access) ==
    /\ CanBorrow(t, access)
    /\ held' = [held EXCEPT !.access[t] = access]
    /\ UNCHANGED <<declarations, type_placeholders, type_arguments, interned,
                   ret>>

\* The thread gives up its reference, between two calls.
Release(t) ==
    /\ held.access[t] # "none"
    /\ held.call[t] = Idle
    /\ held' = [held EXCEPT !.access[t] = "none"]
    /\ UNCHANGED <<declarations, type_placeholders, type_arguments, interned,
                   ret>>

\* The thread enters a call, with the reference it holds.
Enter(t, op, access, self, val) ==
    /\ held.access[t] \in access
    /\ held.call[t] = Idle
    /\ held' = [held EXCEPT !.call[t] = Running(op, self, val)]
    /\ UNCHANGED <<declarations, type_placeholders, type_arguments, interned,
                   ret>>

\* assign and assign_internal reach `self.get(db).value.set(value)`.
WriteCell(t) ==
    /\ held.call[t].op \in {"assign", "assign_internal"}
    /\ type_placeholders' =
           assign_internal_cells(held.call[t].self, held.call[t].val)
    /\ ret' = Call(held.call[t].op, Placeholder(held.call[t].self),
                   held.call[t].val, <<>>)
    /\ held' = [held EXCEPT !.call[t] = Idle]
    /\ UNCHANGED <<declarations, type_arguments, interned>>

\* value reaches `self.get(db).value.get()`.
ReadCell(t) ==
    /\ held.call[t].op = "value"
    /\ ret' = Call("value", Placeholder(held.call[t].self), Unknown,
                   value(held.call[t].self))
    /\ held' = [held EXCEPT !.call[t] = Idle]
    /\ UNCHANGED <<declarations, type_placeholders, type_arguments, interned>>

InitSync ==
    /\ InitDatabase
    /\ type_placeholders =
           [p \in 1 .. Cardinality(SharedPlaceholders) |->
               [value |-> Unknown, required |-> None]]
    /\ held = [access |-> [t \in Threads |-> "none"],
               call |-> [t \in Threads |-> Idle]]

NextSync ==
    \/ \E t \in Threads, a \in {"shared", "exclusive"} : Borrow(t, a)
    \/ \E t \in Threads : Release(t)
    \/ \E t \in Threads, p \in SharedPlaceholders, v \in SharedValues :
           Enter(t, "assign", assign_access, TypePlaceholderId(p, "Any"), v)
    \/ \E p \in SharedPlaceholders, v \in SharedValues :
           Enter("core", "assign_internal", assign_internal_access,
                 TypePlaceholderId(p, "Any"), v)
    \/ \E t \in Threads, p \in SharedPlaceholders :
           Enter(t, "value", value_access, TypePlaceholderId(p, "Any"),
                 Unknown)
    \/ \E t \in Threads : WriteCell(t)
    \/ \E t \in Threads : ReadCell(t)

SpecSync == InitSync /\ [][NextSync]_vars

\* The thread is in a call that writes, or reads, the cell of placeholder p.
Writes(t, p) ==
    /\ held.call[t].op \in {"assign", "assign_internal"}
    /\ held.call[t].self.id = p
Reads(t, p) ==
    /\ held.call[t].op = "value"
    /\ held.call[t].self.id = p

\* The threads that hold a &Database.
Sharing == {t \in Threads : held.access[t] = "shared"}

\* C23: two callers of the public assign never write the same placeholder
\* at the same time, and none reads it while the other writes it, assign
\* holding the database exclusively for as long as it runs; while several
\* threads share the database a placeholder is only written through
\* assign_internal.
C23_NoExternalRace ==
    /\ \A t \in Threads, u \in Threads, p \in SharedPlaceholders :
           (t # u /\ held.call[t].op = "assign" /\ held.call[t].self.id = p)
               => (~Writes(u, p) /\ ~Reads(u, p) /\ held.access[u] = "none")
    /\ Cardinality(Sharing) > 1 =>
           \A t \in Threads, p \in SharedPlaceholders :
               Writes(t, p) => held.call[t].op = "assign_internal"

\* An external caller is in assign, holding the database exclusively, after
\* the other one assigned the same placeholder.
C23_Witness ==
    /\ held.call["external1"].op = "assign"
    /\ held.access["external1"] = "exclusive"
    /\ held.call["external1"].self.id = 0
    /\ ret.op = "assign"
    /\ ret.self = Placeholder(TypePlaceholderId(0, "Any"))
    /\ type_placeholders[1].value = TypeRef_string
    /\ held.call["external1"].val = TypeRef_int

\* The thread of the crate writes a placeholder through assign_internal
\* while an external caller reads it, both sharing the database.
C23_WitnessInternal ==
    /\ held.call["core"].op = "assign_internal"
    /\ Reads("external1", held.call["core"].self.id)
    /\ Sharing = {"core", "external1"}

-----------------------------------------------------------------------------
(* Assignments to placeholders that are assigned already. *)

\* The call assigned a placeholder.
Assigned(call) == call.op \in {"assign", "assign_internal"}

\* C24 as claimed: once the cell of a placeholder holds a value other than
\* Unknown, no assign or assign_internal call changes the value it holds.
C24_Original ==
    [][\A p \in PlaceholderIds :
        (Assigned(ret') /\ Cell(p) # Unknown) => Cell(p)' = Cell(p)]_vars

\* C24: assign and assign_internal store their value whether or not the
\* cell holds one already: after the call the cell of the placeholder holds
\* the value of the call, unless the value is a reference to the placeholder
\* itself, which leaves the cell as it was, and the other cells are
\* unchanged.
C24_LastAssignment ==
    [][\A p \in PlaceholderIds :
        Assigned(ret') =>
            Cell(p)' = IF ret'.self.pid.id = p /\ ~SelfAssigned(ret')
                       THEN ret'.arg
                       ELSE Cell(p)]_vars

\* A placeholder that another placeholder refers to was assigned the type
\* parameter A and holds it.
C24_Witness ==
    /\ Assigned(ret)
    /\ ret.arg = Any(TypeParameter(ParamA))
    /\ Cell(ret.self.pid.id) = Any(TypeParameter(ParamA))
    /\ \E p \in PlaceholderIds :
           /\ p # ret.self.pid.id
           /\ Cell(p) = Placeholder(ret.self.pid)
           /\ Cell(p).pid.id = ret.self.pid.id

-----------------------------------------------------------------------------
(* Reads through chains of placeholders. *)

\* The last call read a placeholder whose cell refers to another
\* placeholder, the chain ending in an assigned value.
ReadOfChain ==
    /\ ret.op = "value"
    /\ Cell(ret.self.pid.id).tag = "Placeholder"
    /\ ChainLast(ret.self.pid.id, {}) \notin {Diverges, Unknown}

\* C25: when the cell of placeholder P refers to another placeholder, over
\* a chain of any length that ends in the value V, value() read through a
\* reference to P tagged O returns V converted by O, the tag of the
\* reference read, as it does when the cell of P holds V itself.
C25_ChainOwnership ==
    ReadOfChain =>
        ret.res = Some(ConversionOf(ret.self.pid.ownership,
                                    ChainLast(ret.self.pid.id, {})))

\* P refers to Q through an Any-tagged reference and Q holds the type
\* parameter A: value() through a Ref-tagged reference to P gave A as Q holds
\* it, not the immutable reference the tag asks for.
C25_Witness ==
    /\ ReadOfChain
    /\ ret.self.pid.ownership = "Ref"
    /\ Cell(ret.self.pid.id).pid.ownership = "Any"
    /\ ChainLast(ret.self.pid.id, {}) = Any(TypeParameter(ParamA))
    /\ ret.res = Some(Any(TypeParameter(ParamA)))
    /\ ConversionOf("Ref", Any(TypeParameter(ParamA)))
           = Ref(TypeParameter(ParamA))

\* Through an Any-tagged reference to P the chain reads as its last value.
C25_WitnessAny ==
    /\ ReadOfChain
    /\ ret.self.pid.ownership = "Any"
    /\ ChainLength(ret.self.pid.id, {}) = 2
    /\ ret.res = Some(ChainLast(ret.self.pid.id, {}))

-----------------------------------------------------------------------------
(* Cycles of placeholders. *)

\* C26: after any sequence of assign and assign_internal calls, the ones
\* that make placeholders refer to each other included, value() returns for
\* every placeholder: no chain of placeholder cells comes back to a
\* placeholder it went through.
C26_Termination ==
    /\ ret.op = "value" => ret.res # Some(Diverges)
    /\ \A p \in PlaceholderIds :
           /\ ChainLast(p, {}) # Diverges
           /\ \A o \in Ownership :
                  value(TypePlaceholderId(p, o)) # Some(Diverges)

\* Two placeholders were assigned to each other and one was read: the call
\* does not return.
C26_Witness ==
    /\ ret.op = "value"
    /\ ret.res = Some(Diverges)
    /\ \E q \in PlaceholderIds \ {ret.self.pid.id} :
           /\ Cell(ret.self.pid.id) = Placeholder(TypePlaceholderId(q, "Any"))
           /\ Cell(q).tag = "Placeholder"
           /\ Cell(q).pid.id = ret.self.pid.id

\* A chain without a cycle was read: the call returned.
C26_WitnessChain ==
    /\ ret.op = "value"
    /\ ChainLength(ret.self.pid.id, {}) = 3
    /\ ChainLast(ret.self.pid.id, {}) = Unknown
    /\ ret.res = None

-----------------------------------------------------------------------------
(* Termination of get_recursive. *)

\* C27: for every TypeArguments mapping, those that bind two or more type
\* parameters to each other in a cycle included, get_recursive returns after
\* finitely many steps, whichever parameter it is called with.
C27_Termination ==
    /\ ret.op = "get_recursive" => ret.res # Some(Diverges)
    /\ \A p \in ArgumentParameters : get_recursive(held, p) # Some(Diverges)

\* P1 is bound to P2, P2 to P3 and P3 to P1: get_recursive of P1 does not
\* return.
C27_Witness ==
    /\ ret.op = "get_recursive"
    /\ ret.arg = Any(TypeParameter(ParamP1))
    /\ ret.res = Some(Diverges)
    /\ TypeArguments_get(held, ParamP1) = Some(Any(TypeParameter(ParamP2)))
    /\ TypeArguments_get(held, ParamP2) = Some(Any(TypeParameter(ParamP3)))
    /\ TypeArguments_get(held, ParamP3) = Some(Any(TypeParameter(ParamP1)))

\* A parameter bound to itself stops the loop: the call returns the binding.
C27_WitnessSelf ==
    /\ ret.op = "get_recursive"
    /\ ret.arg = Any(TypeParameter(ParamP1))
    /\ TypeArguments_get(held, ParamP1) = Some(Any(TypeParameter(ParamP1)))
    /\ ret.res = Some(Any(TypeParameter(ParamP1)))

-----------------------------------------------------------------------------
(* The order in which requirements are added. *)

\* Trait t was declared to require an instance of trait u.
Requires(t, u) ==
    \E i \in 1 .. Len(TraitId_get(t).required_traits) :
        TraitId_get(t).required_traits[i].id = u

\* C28: for the chain C requires B requires A, the inherited type arguments
\* of C hold the mappings of the parameter of B and of the parameter of A,
\* whichever of the two add_required_trait calls, B onto C and A onto B, was
\* made first.
C28_OrderIndependence ==
    (Requires(TraitCId, TraitBId) /\ Requires(TraitBId, TraitAId)) =>
        {ParamP1, ParamP2} \subseteq TypeArguments_keys(Inherited(TraitCId))

\* B[P3] was added to C, then A[P2] to B: B has the mapping of P1 and C has
\* the one of P2 only.
C28_Witness ==
    /\ Requires(TraitCId, TraitBId)
    /\ Requires(TraitBId, TraitAId)
    /\ ret.op = "add_required_trait"
    /\ ret.self.tid.id = TraitBId
    /\ TypeArguments_keys(Inherited(TraitBId)) = {ParamP1}
    /\ TypeArguments_keys(Inherited(TraitCId)) = {ParamP2}

\* A[P2] was added to B, then B[P3] to C: C has both mappings.
C28_WitnessDeclared ==
    /\ Requires(TraitCId, TraitBId)
    /\ Requires(TraitBId, TraitAId)
    /\ ret.op = "add_required_trait"
    /\ ret.self.tid.id = TraitCId
    /\ TypeArguments_keys(Inherited(TraitCId)) = {ParamP1, ParamP2}

-----------------------------------------------------------------------------
(* Interning of instances that differ. *)

\* The type IDs a and b name the same type: the same class with, for every
\* type parameter, arguments of the same type, the same trait, parameter or
\* foreign type.
RECURSIVE SameUnderlying(_, _)
SameUnderlying(a, b) ==
    IF a = None \/ b = None
    THEN a = b
    ELSE IF a[1].k # "ClassInstance" \/ b[1].k # "ClassInstance"
         THEN a = b
         ELSE /\ a[1].id = b[1].id
              /\ \/ ~ClassId_is_generic(a[1].id)
                 \/ LET x == type_arguments[a[1].targs + 1]
                        y == type_arguments[b[1].targs + 1]
                    IN  /\ TypeArguments_keys(x) = TypeArguments_keys(y)
                        /\ \A k \in TypeArguments_keys(x) :
                               SameUnderlying(
                                   type_id(TypeArguments_get(x, k)[1]),
                                   type_id(TypeArguments_get(y, k)[1]))

\* The Stack shape of an interned instance.
InternedShape(a) == ClassInstance_shape(a, Shape_Owned)

\* C29: two generic instances of the same class whose resolved arguments
\* differ in the type assigned to some type parameter, as Pair[Int, String]
\* and Pair[String, Int] do, never get the same interned ID from one
\* InternedTypeArguments, so that their Stack shapes differ.
C29_Separation ==
    \A a, b \in Interned :
        (a.id = b.id /\ ~SameUnderlying(Some(a), Some(b))) =>
            /\ HashMap_get(cache, a) # HashMap_get(cache, b)
            /\ InternedShape(a) # InternedShape(b)

\* Pair[Int, String] and Pair[String, Int] were interned, the two maps
\* iterating in different orders: they have the same ID and the same shape.
C29_Witness ==
    \E a, b \in Interned :
        /\ a.id = PairId
        /\ b.id = PairId
        /\ TypeArguments_get(type_arguments[a.targs + 1], ParamPairK)
               = Some(TypeRef_int)
        /\ TypeArguments_get(type_arguments[b.targs + 1], ParamPairK)
               = Some(TypeRef_string)
        /\ type_arguments[a.targs + 1][1].key
               # type_arguments[b.targs + 1][1].key
        /\ HashMap_get(cache, a) = HashMap_get(cache, b)
        /\ InternedShape(a) = InternedShape(b)

\* Iterating in the same order, the two maps give different IDs.
C29_WitnessSeparate ==
    \E a, b \in Interned :
        /\ a.id = PairId
        /\ b.id = PairId
        /\ ~SameUnderlying(Some(a), Some(b))
        /\ type_arguments[a.targs + 1][1].key
               = type_arguments[b.targs + 1][1].key
        /\ HashMap_get(cache, a) # HashMap_get(cache, b)

-----------------------------------------------------------------------------
(* Qualifier predicates and casts, of values and of placeholders assigned
   them. *)

RECURSIVE is_uni(_)
RECURSIVE is_ref(_)
RECURSIVE is_mut(_)
RECURSIVE is_ref_or_mut(_)

\* TypeRef::is_uni
is_uni(self) ==
    IF self.tag = "Uni" THEN TRUE
    ELSE IF self.tag = "Placeholder"
         THEN LET v == value(self.pid)
              IN  IF v = None THEN FALSE ELSE is_uni(v[1])
         ELSE FALSE

\* TypeRef::is_ref
is_ref(self) ==
    IF self.tag = "Ref" THEN TRUE
    ELSE IF self.tag = "Placeholder"
         THEN LET v == value(self.pid)
              IN  IF v = None THEN FALSE ELSE is_ref(v[1])
         ELSE FALSE

\* TypeRef::is_mut: the arm of placeholders calls is_ref on the value.
is_mut(self) ==
    IF self.tag = "Mut" THEN TRUE
    ELSE IF self.tag = "Placeholder"
         THEN LET v == value(self.pid)
              IN  IF v = None THEN FALSE ELSE is_ref(v[1])
         ELSE FALSE

\* TypeRef::is_ref_or_mut
is_ref_or_mut(self) ==
    IF self.tag \in {"Mut", "Ref"} THEN TRUE
    ELSE IF self.tag = "Placeholder"
         THEN LET v == value(self.pid)
              IN  IF v = None THEN FALSE ELSE is_ref_or_mut(v[1])
         ELSE FALSE

\* TypeRef::cast_according_to
cast_according_to(self, other) ==
    IF is_value_type(self)
    THEN IF is_uni(other) THEN as_uni(self)
         ELSE IF is_ref_or_mut(other) /\ is_extern_instance(self)
              THEN as_pointer(self)
              ELSE as_owned(self)
    ELSE IF is_ref(other) THEN as_ref(self)
         ELSE IF is_mut(other) THEN as_mut(self)
         ELSE self

\* The values the placeholder is assigned: every qualifier of an instance of
\* Int, Thing and Extern and of the type parameter A.
QualifiedValues ==
    {TypeRef(q, t) :
        q \in Qualifiers,
        t \in {ClassInstance_new(INT_ID), ClassInstance_new(ThingId),
               ClassInstance_new(ExternId), TypeParameter(ParamA)}}

\* The values cast.
CastValues ==
    {TypeRef_int, Owned(ClassInstance_new(ThingId)),
     Owned(ClassInstance_new(ExternId)), Ref(ClassInstance_new(ThingId)),
     Any(TypeParameter(ParamA))}

\* A call of a predicate on the TypeRef held as other.
Qualifier(op, res) ==
    /\ ret' = Call(op, held.other, Unknown, <<res>>)
    /\ UNCHANGED <<declarations, type_placeholders, type_arguments,
                   interned, held>>

IsRef == Qualifier("is_ref", is_ref(held.other))
IsMut == Qualifier("is_mut", is_mut(held.other))
IsRefOrMut == Qualifier("is_ref_or_mut", is_ref_or_mut(held.other))

\* self.cast_according_to(db, other)
CastAccordingTo ==
    /\ ret' = Call("cast_according_to", held.self, held.other,
                   <<cast_according_to(held.self, held.other)>>)
    /\ UNCHANGED <<declarations, type_placeholders, type_arguments,
                   interned, held>>

\* Inference assigned a value to the placeholder; the caller holds a value
\* to cast and, as other, the assigned value or an Any-tagged reference to
\* the placeholder.
InitQualifiers ==
    /\ InitDatabase
    /\ \E v \in QualifiedValues :
           /\ type_placeholders = <<[value |-> v, required |-> None]>>
           /\ \E x \in CastValues,
                 o \in {v, Placeholder(TypePlaceholderId(0, "Any"))} :
                  held = [self |-> x, other |-> o]

NextQualifiers ==
    \/ IsRef
    \/ IsMut
    \/ IsRefOrMut
    \/ CastAccordingTo

SpecQualifiers == InitQualifiers /\ [][NextQualifiers]_vars

\* The predicate named op, of a value.
QualifierOf(op, v) ==
    CASE op = "is_ref" -> is_ref(v)
      [] op = "is_mut" -> is_mut(v)
      [] op = "is_ref_or_mut" -> is_ref_or_mut(v)

\* C30: for every TypeRef v, is_ref, is_mut and is_ref_or_mut of a reference
\* to an Any-tagged placeholder resolved to v are the ones of v, so that
\* cast_according_to(x, other) returns the same for other given as a value
\* and given through a placeholder resolved to that value.
C30_ThroughPlaceholders ==
    /\ (ret.op \in {"is_ref", "is_mut", "is_ref_or_mut"}
        /\ ret.self.tag = "Placeholder")
       => ret.res = <<QualifierOf(ret.op, Cell(ret.self.pid.id))>>
    /\ (ret.op = "cast_according_to" /\ ret.arg.tag = "Placeholder")
       => ret.res = <<cast_according_to(ret.self, Cell(ret.arg.pid.id))>>

\* The placeholder holds a mutable reference to a Thing: cast according to
\* it an owned Thing stays owned, and is_mut of the placeholder is false.
C30_Witness ==
    /\ ret.op = "cast_according_to"
    /\ ret.arg = Placeholder(TypePlaceholderId(0, "Any"))
    /\ Cell(0) = Mut(ClassInstance_new(ThingId))
    /\ ret.self = Owned(ClassInstance_new(ThingId))
    /\ ret.res = <<Owned(ClassInstance_new(ThingId))>>
    /\ cast_according_to(ret.self, Cell(0)) = Mut(ClassInstance_new(ThingId))
    /\ ~is_mut(ret.arg)

\* is_mut of a placeholder that holds an immutable reference is true.
C30_WitnessRef ==
    /\ ret.op = "is_mut"
    /\ ret.self = Placeholder(TypePlaceholderId(0, "Any"))
    /\ Cell(0) = Ref(ClassInstance_new(ThingId))
    /\ ret.res = <<TRUE>>

\* is_ref of a placeholder is the one of its value.
C30_WitnessIsRef ==
    /\ ret.op = "is_ref"
    /\ ret.self = Placeholder(TypePlaceholderId(0, "Any"))
    /\ Cell(0) = Ref(ClassInstance_new(ThingId))
    /\ ret.res = <<TRUE>>

====
